---- MODULE Spec2Model ----
(***************************************************************************)
(* Stock Sentinel: the Pre-signal Index engine (PreSignalEngine) and the   *)
(* Flash Reason engine (FlashReasonEngine) of                              *)
(* src/sentinel/engines/psi_engine.py, with the configuration tables of    *)
(* src/sentinel/config/settings.py.                                        *)
(*                                                                         *)
(* Conventions of the model                                                *)
(*  - A Python dict is a function whose domain is the set of keys that are *)
(*    present; d.get(k, default) is Get(d, k, default).                    *)
(*  - Python None is the value None.                                       *)
(*  - Every decimal quantity (ratios, percentages, boosts, penalties, the  *)
(*    PSI itself, relevance) is held in hundredths: 4.2 is 420, 0.35 is    *)
(*    35.  The component scores are whole points (0..10), as in the code.  *)
(*  - Text is a TLA+ string; `kw in text` is substring search, lower() is  *)
(*    computed character by character.                                     *)
(*  - Time is counted in whole hours; a timestamp is the hour of           *)
(*    publication or a value datetime.fromisoformat rejects.               *)
(***************************************************************************)
EXTENDS Integers, Sequences, FiniteSets, TLC

VARIABLES
    engine,         \* the PreSignalEngine instance with its ticker (None before __init__)
    score_weights,  \* SCORE_WEIGHTS as psi_engine imports it from config.settings
    psi_levels,     \* PSI_LEVELS as psi_engine imports it from config.settings
    options_data,   \* argument of calculate: the options bundle (dict or None)
    social_data,    \* argument of calculate: the social bundle (dict or None)
    news_data,      \* argument of calculate / analyze: the list of news dicts
    price_data,     \* argument of calculate / analyze: the price snapshot (dict or None)
    candidates,     \* argument of _classify_event: the list of candidates
    psi_arg,        \* argument of _get_level: a score in hundredths
    level_result,   \* what _get_level returned (None before the call)
    now,            \* datetime.utcnow(), in seconds since 2000-01-01T00:00:00
    psi_result,     \* what calculate returned (None before the call)
    details,        \* PreSignalEngine.details (self.details)
    psi_scores,     \* the psi_scores table written by save_psi_score
    flash_result,   \* what analyze returned (None before the call)
    combine_args,   \* the scores and boosts the combination of calculate is applied to
    combine_totals, \* the psi_total it gave for each of them so far
    telegram_config, \* TOKEN and CHAT_ID of alerts/telegram.py, read from the environment
    telegram_calls, \* the calls of send_telegram so far: arguments, requests made, value returned
    summary_config, \* OPENAI_API_KEY of engines/ai_summarizer.py, read from the environment
    alerts,         \* the alerts table of the database, in the order of insertion
    alert_args,     \* what send_alert is called with in this run: arguments, and what the world answers
    alert_calls,    \* the calls of send_alert made: what each computed, sent, stored and returned
    scan_config,    \* SCAN_TICKER and FORCE_ALERT of run_scan.py, WATCHLIST of settings.py
    scan_world,     \* what the collectors, the price table and the services give during the run
    tickers,        \* the list main goes through (empty before main computes it)
    scan_runs,      \* the runs of scan_single so far, one for each turn of the loop of main,
                    \* each with what it returned or raised
    results,        \* the results list of main
    errors,         \* the errors list of main
    main_at         \* where main is: "idle" (not called), "start", "loop", "returned"

\* the state of the two engines, the clock apart
engine_state == <<engine, score_weights, psi_levels,
                  options_data, social_data, news_data, price_data, candidates, psi_arg,
                  psi_result, details, psi_scores, flash_result, level_result>>

\* the state of the two engines
engine_vars == <<engine_state, now>>

\* the state of the combination step taken alone
combine_vars == <<combine_args, combine_totals>>

\* the state of alerts/telegram.py and of the network behind it
telegram_vars == <<telegram_config, telegram_calls>>

\* the state of alerts/alert_system.py, of the summarizer and of the alerts table
alert_vars == <<summary_config, alerts, alert_args, alert_calls>>

\* the state of run_scan.py
scan_vars == <<scan_config, scan_world, tickers, scan_runs, results, errors, main_at>>

\* the state outside the two engines
outer_vars == <<combine_vars, telegram_vars, alert_vars, scan_vars>>

vars == <<engine_vars, outer_vars>>

-----------------------------------------------------------------------------
(* Python values *)

None == [None |-> TRUE]

EmptyDict == [k \in {} |-> 0]

Get(d, k, default) == IF k \in DOMAIN d THEN d[k] ELSE default

\* `x or {}` for an argument that is a dict or None
OrEmptyDict(d) == IF d = None THEN EmptyDict ELSE d

\* bool(d) of a dict or None: false for None and for the empty dict
Truthy(d) == d # None /\ d # EmptyDict

Restrict(r, K) == [k \in K |-> r[k]]

Min(a, b) == IF a <= b THEN a ELSE b

Max(a, b) == IF a >= b THEN a ELSE b

Abs(x) == IF x < 0 THEN -x ELSE x

\* all the lists of at most n elements of S
SeqsUpTo(S, n) == UNION {[1..k -> S] : k \in 0..n}

\* the list of n copies of x
Repeat(x, n) == [i \in 1..n |-> x]

-----------------------------------------------------------------------------
(* Text *)

LowerChar(c) ==
    CASE c = "A" -> "a" [] c = "B" -> "b" [] c = "C" -> "c" [] c = "D" -> "d"
      [] c = "E" -> "e" [] c = "F" -> "f" [] c = "G" -> "g" [] c = "H" -> "h"
      [] c = "I" -> "i" [] c = "J" -> "j" [] c = "K" -> "k" [] c = "L" -> "l"
      [] c = "M" -> "m" [] c = "N" -> "n" [] c = "O" -> "o" [] c = "P" -> "p"
      [] c = "Q" -> "q" [] c = "R" -> "r" [] c = "S" -> "s" [] c = "T" -> "t"
      [] c = "U" -> "u" [] c = "V" -> "v" [] c = "W" -> "w" [] c = "X" -> "x"
      [] c = "Y" -> "y" [] c = "Z" -> "z" [] OTHER -> c

\* str.lower(), character by character (the two halves of the text in turn)
LowerOf[s \in STRING] ==
    IF Len(s) <= 1 THEN LowerChar(s)
    ELSE LowerOf[SubSeq(s, 1, Len(s) \div 2)] \o LowerOf[SubSeq(s, (Len(s) \div 2) + 1, Len(s))]

lower(s) == LowerOf[s]

\* Python's `kw in text` on strings
In(kw, text) ==
    \E i \in 1..(Len(text) - Len(kw) + 1) : SubSeq(text, i, i + Len(kw) - 1) = kw

\* s[:n]
Slice(s, n) == SubSeq(s, 1, Min(n, Len(s)))

-----------------------------------------------------------------------------
(* config/settings.py.  The keyword lists hold their ASCII entries: the     *)
(* Korean entries of the source lists match no text of the model, whose    *)
(* texts are ASCII.                                                        *)

SCORE_WEIGHTS == [options |-> 35, attention |-> 30, fact |-> 35]

CONFLUENCE_BONUS == 100

NOISE_PENALTY_MAX == 200

\* the dict in its insertion order, which is the order _get_level walks it in
PSI_LEVELS ==
    << [level |-> "normal",   low |-> 0,   high |-> 300],
       [level |-> "watch",    low |-> 300, high |-> 500],
       [level |-> "alert",    low |-> 500, high |-> 700],
       [level |-> "critical", low |-> 700, high |-> 1000] >>

OPTIONS_SCORING ==
    [otm_volume_3x |-> 3, otm_volume_5x |-> 5, short_expiry_60pct |-> 2,
     oi_change_50pct |-> 2, iv_skew_2sigma |-> 1, large_trade_100k |-> 1]

ATTENTION_SCORING ==
    [mention_accel_100pct |-> 3, mention_accel_300pct |-> 5,
     breaking_keywords |-> 2, google_trends_2x |-> 2, multi_platform |-> 1]

BREAKING_KEYWORDS ==
    {"breaking", "just announced", "just reported",
     "urgent", "alert", "soars", "plunges", "surges",
     "crashes", "halted", "FDA approved", "settlement",
     "acquisition", "merger", "buyout", "recall"}

FACT_SCORING ==
    [sec_8k |-> 4, sec_other |-> 2, regulatory |-> 3,
     earnings_window |-> 2, multi_source |-> 1]

NEGATIVE_KEYWORDS ==
    {"lawsuit", "sued", "recall", "fraud", "investigation",
     "downgrade", "ban", "sanction", "penalty", "fine",
     "layoff", "cut", "miss", "disappointing", "weak"}

POSITIVE_KEYWORDS ==
    {"beat", "raise", "upgrade", "approved", "deal",
     "contract", "partnership", "record", "strong",
     "guidance above", "upside", "outperform"}

\* PreSignalEngine(ticker).ticker, FlashReasonEngine(ticker).ticker
Ticker == "AMAT"

-----------------------------------------------------------------------------
(* The keyword lists of engines/psi_engine.py *)

\* psi_engine.py:262-263
REGULATORY_TERMS ==
    {"bis", "fda", "ftc", "doj", "sec ", "settlement",
     "export control", "entity list", "approved", "cleared"}

\* psi_engine.py:268-269
EARNINGS_TERMS ==
    {"earnings", "eps", "revenue", "guidance", "quarter",
     "fiscal", "q1", "q2", "q3", "q4", "beat", "miss"}

\* psi_engine.py:442-450: the dict in its insertion order
TYPE_KEYWORDS ==
    << [type |-> "earnings",
        keywords |-> {"earnings", "eps", "revenue", "quarter", "fiscal", "guidance"}],
       [type |-> "regulatory",
        keywords |-> {"bis", "fda", "ftc", "sec", "settlement", "export", "sanction",
                      "penalty"}],
       [type |-> "supply_chain",
        keywords |-> {"tsmc", "samsung", "foundry", "fab", "capex", "equipment order"}],
       [type |-> "analyst",
        keywords |-> {"upgrade", "downgrade", "target", "rating", "overweight", "analyst"}],
       [type |-> "ma",
        keywords |-> {"acquisition", "merger", "buyout", "deal", "partnership"}],
       [type |-> "sector",
        keywords |-> {"semiconductor", "chip", "sector", "etf", "industry"}],
       [type |-> "macro",
        keywords |-> {"fed", "fomc", "inflation", "tariff", "trade war"}] >>

\* psi_engine.py:497-501
GUIDE_DOWN_TERMS ==
    {"guidance below", "guide down", "lowered guidance",
     "cut guidance", "reduced outlook", "below expectations",
     "disappointing guidance", "weak guidance", "outlook miss",
     "declines after", "falls despite", "drops despite",
     "despite beat", "despite strong"}

\* psi_engine.py:502
BEAT_TERMS == {"beat", "topped", "exceeded", "surpassed", "above estimate"}

\* Every keyword list the engines search a text for, by name, as it is
\* searched for: the lists of settings.py lower-cased (kw.lower()), the
\* lists of psi_engine.py as they are.
TERMS ==
    [breaking |-> {lower(kw) : kw \in BREAKING_KEYWORDS},
     negative |-> {lower(kw) : kw \in NEGATIVE_KEYWORDS},
     positive |-> {lower(kw) : kw \in POSITIVE_KEYWORDS},
     regulatory |-> REGULATORY_TERMS,
     earnings |-> EARNINGS_TERMS,
     form_8k |-> {"8-k", "8k"},
     sec |-> {"sec"},
     guide_down |-> GUIDE_DOWN_TERMS,
     beat |-> BEAT_TERMS,
     type_earnings |-> TYPE_KEYWORDS[1].keywords,
     type_regulatory |-> TYPE_KEYWORDS[2].keywords,
     type_supply_chain |-> TYPE_KEYWORDS[3].keywords,
     type_analyst |-> TYPE_KEYWORDS[4].keywords,
     type_ma |-> TYPE_KEYWORDS[5].keywords,
     type_sector |-> TYPE_KEYWORDS[6].keywords,
     type_macro |-> TYPE_KEYWORDS[7].keywords]

\* any(term in text for term in <the list called name>)
AnyTermIn(name, text) == \E t \in TERMS[name] : In(t, text)

-----------------------------------------------------------------------------
(* The news items of the model *)

\* for the attention scorer: no breaking keyword; one in the title; one in
\* the summary; one that only title + " " + summary holds; no text at all
AttentionItems ==
    { [title |-> "Shares move on volume", summary |-> "Quiet session"],
      [title |-> "BREAKING: trading halted", summary |-> ""],
      [title |-> "Company update", summary |-> "Stock SURGES at open"],
      [title |-> "Company has just", summary |-> "announced results"],
      [source |-> "finnhub"] }

\* for the fact scorer
F_8K == [title |-> "Form 8-K current report", source_type |-> "filing", source |-> "sec_edgar"]

F_8K_BY_SOURCE == [title |-> "Files 8K report", source_type |-> "news", source |-> "SEC Edgar"]

F_10Q == [title |-> "Form 10-Q filed", source_type |-> "filing", source |-> "sec_edgar"]

F_REGULATORY == [title |-> "FTC opens review", source_type |-> "news", source |-> "google_news"]

F_EARNINGS == [title |-> "Q2 revenue rises", source_type |-> "news", source |-> "finnhub"]

F_BOTH == [title |-> "FTC reviews Q2 revenue", source_type |-> "news", source |-> "google_news"]

F_PLAIN == [title |-> "Shares move on volume", source_type |-> "news", source |-> "yahoo_finance"]

F_8K_IN_NEWS == [title |-> "Analyst reads the 8-K", source_type |-> "news", source |-> "finnhub"]

F_BARE == [url |-> "https://example.com/1"]

FactItems ==
    {F_8K, F_8K_BY_SOURCE, F_10Q, F_REGULATORY, F_EARNINGS, F_PLAIN, F_8K_IN_NEWS, F_BARE}

\* for the Flash Reason engine
N_FILING ==
    [title |-> "Form 8-K current report", summary |-> "", url |-> "https://example.com/1",
     source |-> "sec_edgar", source_type |-> "filing", sentiment |-> "neutral",
     keywords_matched |-> <<"AMAT">>, timestamp |-> "2026-02-13T10:00:00"]

N_BEAT ==
    [title |-> "Q1 earnings beat estimates", summary |-> "EPS ahead of consensus",
     url |-> "https://example.com/2",
     source |-> "finnhub", source_type |-> "news", sentiment |-> "positive",
     keywords_matched |-> << >>, timestamp |-> "2026-02-11T21:00:00"]

N_LAWSUIT ==
    [title |-> "Company faces lawsuit", summary |-> "", url |-> "https://example.com/3",
     source |-> "google_news", source_type |-> "news", sentiment |-> "negative",
     keywords_matched |-> <<"AMAT">>, timestamp |-> "2026-02-13T12:30:00"]

N_RECORD ==
    [title |-> "Record contract signed", summary |-> "", url |-> "https://example.com/4",
     source |-> "google_news", source_type |-> "news", sentiment |-> "positive",
     keywords_matched |-> <<"AMAT", "HBM">>, timestamp |-> "2026-02-13T10:00:00"]

N_GUIDE_DOWN ==
    [title |-> "Shares slide on weak guidance", summary |-> "", url |-> "https://example.com/5",
     source |-> "yahoo_finance", source_type |-> "news", sentiment |-> "negative",
     keywords_matched |-> <<"AMAT">>, timestamp |-> "2026-02-12T21:00:00"]

\* 64 characters
Filler == "Quiet session with thin order books and no change in sentiment. "

\* no keyword of any list in the title or in the first 200 characters of the
\* summary, and "topped" further on in the summary
N_PLAIN ==
    [title |-> "Shares move on volume",
     summary |-> Filler \o Filler \o Filler \o Filler \o "Results topped forecasts.",
     url |-> "https://example.com/6",
     source |-> "yahoo_finance", source_type |-> "news", sentiment |-> "neutral",
     keywords_matched |-> << >>, timestamp |-> ""]

N_UPBEAT ==
    [title |-> "Investor day scheduled", summary |-> "", url |-> "https://example.com/7",
     source |-> "google_news", source_type |-> "news", sentiment |-> "positive",
     keywords_matched |-> <<"AMAT">>, timestamp |-> "2026-02-13T12:00:00"]

FlashItems == {N_FILING, N_BEAT, N_LAWSUIT, N_RECORD, N_GUIDE_DOWN, N_PLAIN, N_UPBEAT}

\* candidates of a regulatory source and of no keyword, for _classify_event
K_REGULATORY == [title |-> "FTC opens review", source_type |-> "regulatory", sentiment |-> "neutral"]

K_UNCLEAR == [title |-> "Outlook unclear", source_type |-> "news", sentiment |-> "negative"]

\* items that lack a title or a timestamp
N_NO_TITLE ==
    [summary |-> "", url |-> "https://example.com/8",
     source |-> "finnhub", source_type |-> "news", sentiment |-> "neutral",
     keywords_matched |-> <<"AMAT">>, timestamp |-> "2026-02-13T12:30:00"]

N_NO_TIME ==
    [title |-> "Record contract signed", summary |-> "", url |-> "https://example.com/9",
     source |-> "google_news", source_type |-> "news", sentiment |-> "positive",
     keywords_matched |-> <<"AMAT", "HBM">>]

MalformedItems == {N_FILING, N_BEAT, N_LAWSUIT, N_UPBEAT, N_NO_TITLE, N_NO_TIME, F_BARE}

\* the items candidates are made of
CandidateSources == FlashItems \cup {K_REGULATORY, K_UNCLEAR, N_NO_TIME}

\* for the ranking: ages on both sides of 1, 6 and 24 hours, timestamps of
\* the shorter forms, of no form and of no date, every source weight, a
\* breaking keyword in the title and in the summary only, more keywords
\* than the score has room for.  The first four have the same relevance.
R_FRESH ==
    [title |-> "Shares move on volume", summary |-> "Quiet session", source |-> "google_news",
     source_type |-> "news", keywords_matched |-> <<"AMAT">>,
     timestamp |-> "2026-02-13T12:00:01"]

R_HOUR ==
    [title |-> "Shares move on volume", summary |-> "Quiet session", source |-> "finnhub",
     source_type |-> "news", keywords_matched |-> << >>, timestamp |-> "2026-02-13T12:00:00"]

R_SIX ==
    [title |-> "Shares move on volume", summary |-> "Quiet session", source |-> "finnhub",
     source_type |-> "filing", keywords_matched |-> << >>, timestamp |-> "2026-02-13T07:00:00"]

R_SIX_LESS ==
    [title |-> "Shares move on volume", summary |-> "Quiet session", source |-> "google_news",
     source_type |-> "news", keywords_matched |-> <<"AMAT", "HBM">>,
     timestamp |-> "2026-02-13T07:00:01"]

R_DAY ==
    [title |-> "BREAKING: trading halted", summary |-> "", source |-> "google_news",
     source_type |-> "news", keywords_matched |-> << >>, timestamp |-> "2026-02-12T13:00:00"]

R_DAY_LESS ==
    [title |-> "Company update", summary |-> "Stock SURGES at open", source |-> "google_news",
     source_type |-> "news", keywords_matched |-> << >>, timestamp |-> "2026-02-12T13:00:01"]

R_FUTURE ==
    [title |-> "Shares move on volume", source |-> "sec_edgar", timestamp |-> "2026-02-13T14:00"]

R_DATE == [title |-> "Shares move on volume", source |-> "Finnhub", timestamp |-> "2026-02-13"]

R_NO_TIME == [title |-> "Shares move on volume", source |-> "finnhub", timestamp |-> "yesterday"]

R_NO_DAY ==
    [title |-> "Shares move on volume", keywords_matched |-> <<"AMAT">>,
     timestamp |-> "2026-02-30T10:00:00"]

R_TITLE_ONLY == [title |-> "Shares move on volume"]

R_MANY ==
    [title |-> "BREAKING: trading halted", summary |-> "", source |-> "sec_edgar",
     source_type |-> "filing",
     keywords_matched |-> <<"AMAT", "HBM", "EUV", "GAA", "CMP", "CVD", "PVD", "WFE", "BIS",
                            "N2", "A16">>,
     timestamp |-> "2026-02-13T12:59:59"]

RankItems ==
    {R_FRESH, R_HOUR, R_SIX, R_SIX_LESS, R_DAY, R_DAY_LESS, R_FUTURE, R_DATE, R_NO_TIME,
     R_NO_DAY, R_TITLE_ONLY, R_MANY}

\* for the event type: a title of each category, titles of two and of
\* three categories, one in capitals, one of no category and no title
TypeItems ==
    { [title |-> "Q3 earnings call set"],
      [title |-> "FDA settlement reached"],
      [title |-> "Samsung foundry expands"],
      [title |-> "Analyst rating raised"],
      [title |-> "Merger talks confirmed"],
      [title |-> "Chip industry rallies"],
      [title |-> "Fed signals tariff pause"],
      [title |-> "Analyst upgrade after earnings"],
      [title |-> "Merger reshapes chip industry"],
      [title |-> "Chip sector rallies"],
      [title |-> "Export tariff hits TSMC"],
      [title |-> "EPS TOPS VIEWS"],
      [title |-> "Shares move on volume"],
      F_BARE }

\* psi_engine.py:623-660: the data of the built-in test
REFERENCE_OPTIONS ==
    [otm_call_volume_ratio |-> 420, short_expiry_pct |-> 65, oi_change_pct |-> 55,
     iv_skew_sigma |-> 230, large_trade_count |-> 3, pc_ratio |-> 45]

REFERENCE_SOCIAL ==
    [current_mentions |-> 340, previous_mentions |-> 100, breaking_keyword_found |-> TRUE,
     google_trends_ratio |-> 250, platforms_active |-> <<"reddit", "stocktwits">>]

REFERENCE_NEWS ==
    << [title |-> "Applied Materials Q1 earnings beat estimates",
        source_type |-> "news", source |-> "finnhub", sentiment |-> "positive",
        keywords_matched |-> <<"AMAT", "earnings">>, timestamp |-> "2026-02-12T21:00:00",
        url |-> "https://example.com/1", summary |-> "EPS $2.38 vs $2.25 expected"],
       [title |-> "[SEC 8-K] Applied Materials Q1 2026 Results",
        source_type |-> "filing", source |-> "sec_edgar", sentiment |-> "neutral",
        keywords_matched |-> <<"AMAT">>, timestamp |-> "2026-02-12T21:30:00",
        url |-> "https://example.com/2", summary |-> ""],
       [title |-> "BIS settlement: Applied Materials pays $252M penalty",
        source_type |-> "news", source |-> "google_news", sentiment |-> "negative",
        keywords_matched |-> <<"AMAT", "BIS", "export control">>,
        timestamp |-> "2026-02-11T21:00:00", url |-> "https://example.com/3",
        summary |-> "Settlement resolves export violations"],
       [title |-> "Applied Materials guidance above consensus, shares surge",
        source_type |-> "news", source |-> "finnhub", sentiment |-> "positive",
        keywords_matched |-> <<"AMAT", "guidance">>, timestamp |-> "2026-02-13T10:00:00",
        url |-> "https://example.com/4", summary |-> "Q2 guidance $7.65B vs $7.02B expected"],
       [title |-> "KeyBanc raises AMAT target to $450, sees 37% upside",
        source_type |-> "news", source |-> "google_news", sentiment |-> "positive",
        keywords_matched |-> <<"AMAT">>, timestamp |-> "2026-02-13T12:00:00",
        url |-> "https://example.com/5", summary |-> ""] >>

ReferenceItems == {REFERENCE_NEWS[i] : i \in DOMAIN REFERENCE_NEWS}

NewsUniverse ==
    AttentionItems \cup FactItems \cup CandidateSources \cup RankItems \cup TypeItems
    \cup MalformedItems \cup ReferenceItems
    \cup {F_BOTH, [F_PLAIN EXCEPT !.source = "finnhub"]}

-----------------------------------------------------------------------------------------------------------------------------------------------------
(* Text search, tabulated: what lower() and the keyword searches make of   *)
(* the texts the engines build from the news items of the model.           *)

\* psi_engine.py:203, 478: title + ' ' + summary
TitleAndSummary(article) == Get(article, "title", "") \o " " \o Get(article, "summary", "")

\* psi_engine.py:376, 478: title + ' ' + summary[:200], the text of the candidate
TitleAndCutSummary(article) ==
    Get(article, "title", "") \o " " \o Slice(Get(article, "summary", ""), 200)

\* the texts of one item that the engines lower-case
TextsOf(article) ==
    {Get(article, "title", ""), Get(article, "source", ""), Get(article, "summary", ""),
     Slice(Get(article, "summary", ""), 200), TitleAndSummary(article),
     TitleAndCutSummary(article)}

RawTexts == UNION {TextsOf(a) : a \in NewsUniverse}

LowerTable == [t \in RawTexts |-> lower(t)]

\* text.lower()
Lower(t) == LowerTable[t]

\* the texts of a list, each followed by a space
Joined(texts) ==
    LET text[i \in 0..Len(texts)] == IF i = 0 THEN "" ELSE text[i - 1] \o texts[i] \o " "
    IN  text[Len(texts)]

\* psi_engine.py:476-479: the all_text of up to three candidates
AllTexts ==
    {Joined(texts) : texts \in SeqsUpTo({Lower(TitleAndCutSummary(a)) : a \in CandidateSources}, 3)
                            \cup SeqsUpTo({Lower(TitleAndCutSummary(a)) : a \in ReferenceItems}, 3)}

\* the keyword lists that have a keyword in the text
TermTable ==
    [t \in {Lower(r) : r \in RawTexts} \cup AllTexts |->
        {name \in DOMAIN TERMS : AnyTermIn(name, t)}]

\* any(kw in text for kw in <the list called name>)
HasTerm(name, text) == name \in TermTable[text]

-----------------------------------------------------------------------------
(* PreSignalEngine: the three component scorers *)

\* the OTM volume tiers as two separate ifs
otm_factors_both_tiers(otm_ratio) ==
    (IF otm_ratio >= 500
     THEN << <<"otm_volume_5x", OPTIONS_SCORING.otm_volume_5x>> >>
     ELSE << >>)
    \o (IF otm_ratio >= 300
        THEN << <<"otm_volume_3x", OPTIONS_SCORING.otm_volume_3x>> >>
        ELSE << >>)

\* psi_engine.py:139-144: the OTM volume tiers (if / elif)
otm_factors(otm_ratio) ==
    IF otm_ratio >= 500
    THEN << <<"otm_volume_5x", OPTIONS_SCORING.otm_volume_5x>> >>
    ELSE IF otm_ratio >= 300
    THEN << <<"otm_volume_3x", OPTIONS_SCORING.otm_volume_3x>> >>
    ELSE << >>

\* score += points, over the factors found
SumPoints(factors) ==
    LET sum[i \in 0..Len(factors)] == IF i = 0 THEN 0 ELSE sum[i - 1] + factors[i][2]
    IN  sum[Len(factors)]

\* the score capped, with the factors it is made of
Scored(factors, cap) == [score |-> Min(cap, SumPoints(factors)), factors |-> factors]

\* psi_engine.py:129-177.  Returns [score, factors].
_calc_options_score(data) ==
    IF data = EmptyDict
    THEN [score |-> 0, factors |-> << <<"no_options_data", 0>> >>]
    ELSE
    LET otm_ratio == Get(data, "otm_call_volume_ratio", 0)
        short_pct == Get(data, "short_expiry_pct", 0)
        oi_change == Get(data, "oi_change_pct", 0)
        iv_skew_sigma == Get(data, "iv_skew_sigma", 0)
        large_trades == Get(data, "large_trade_count", 0)
        pc_ratio == Get(data, "pc_ratio", 100)
        f1 == otm_factors(otm_ratio)
        f2 == IF short_pct >= 60
              THEN << <<"short_expiry_60pct", OPTIONS_SCORING.short_expiry_60pct>> >>
              ELSE << >>
        f3 == IF Abs(oi_change) >= 50
              THEN << <<"oi_change_50pct", OPTIONS_SCORING.oi_change_50pct>> >>
              ELSE << >>
        f4 == IF Abs(iv_skew_sigma) >= 200
              THEN << <<"iv_skew_2sigma", OPTIONS_SCORING.iv_skew_2sigma>> >>
              ELSE << >>
        f5 == IF large_trades > 0
              THEN << <<"large_trade_100k", OPTIONS_SCORING.large_trade_100k>> >>
              ELSE << >>
        f6 == IF pc_ratio < 50 \/ pc_ratio > 200
              THEN << <<"pc_ratio", 1>> >>
              ELSE << >>
    IN  Scored(f1 \o f2 \o f3 \o f4 \o f5 \o f6, 10)

\* psi_engine.py:203-204: one article of the breaking-keyword loop
ArticleIsBreaking(article) ==
    LET text == Lower(TitleAndSummary(article))
    IN  HasTerm("breaking", text)

\* psi_engine.py:191-198: the mention acceleration tiers.
\* accel = (current - previous) / previous * 100 is compared with 300 and 100.
mention_factors(current_mentions, previous_mentions) ==
    IF previous_mentions > 0 /\ current_mentions > 0
    THEN IF (current_mentions - previous_mentions) * 100 >= 300 * previous_mentions
         THEN << <<"mention_accel_300pct", ATTENTION_SCORING.mention_accel_300pct>> >>
         ELSE IF (current_mentions - previous_mentions) * 100 >= 100 * previous_mentions
         THEN << <<"mention_accel_100pct", ATTENTION_SCORING.mention_accel_100pct>> >>
         ELSE << >>
    ELSE << >>

\* psi_engine.py:182-230.  Returns [score, factors].
_calc_attention_score(social, news) ==
    LET current_mentions == Get(social, "current_mentions", 0)
        previous_mentions == Get(social, "previous_mentions", 0)
        f1 == mention_factors(current_mentions, previous_mentions)
        breaking_found == \E i \in 1..Len(news) : ArticleIsBreaking(news[i])
        f2 == IF breaking_found \/ Get(social, "breaking_keyword_found", FALSE)
              THEN << <<"breaking_keywords", ATTENTION_SCORING.breaking_keywords>> >>
              ELSE << >>
        trends_ratio == Get(social, "google_trends_ratio", 0)
        f3 == IF trends_ratio >= 200
              THEN << <<"google_trends_2x", ATTENTION_SCORING.google_trends_2x>> >>
              ELSE << >>
        platforms_active == Get(social, "platforms_active", << >>)
        f4 == IF Len(platforms_active) >= 2
              THEN << <<"multi_platform", ATTENTION_SCORING.multi_platform>> >>
              ELSE << >>
        f5 == IF Len(news) >= 10
              THEN << <<"news_volume", 1>> >>
              ELSE << >>
    IN  Scored(f1 \o f2 \o f3 \o f4 \o f5, 10)

\* psi_engine.py:254: the article counts as an SEC filing
ArticleIsFiling(article) ==
    \/ Get(article, "source_type", "") = "filing"
    \/ HasTerm("sec", Lower(Get(article, "source", "")))

\* psi_engine.py:255
TitleIs8K(article) ==
    LET title == Lower(Get(article, "title", ""))
    IN  HasTerm("form_8k", title)

\* the filing tiers as two separate ifs
filing_factors_both_tiers(has_8k, has_other_filing) ==
    (IF has_8k THEN << <<"sec_8k", FACT_SCORING.sec_8k>> >> ELSE << >>)
    \o (IF has_other_filing THEN << <<"sec_other", FACT_SCORING.sec_other>> >> ELSE << >>)

\* psi_engine.py:274-279: the filing tiers (if / elif)
filing_factors(has_8k, has_other_filing) ==
    IF has_8k
    THEN << <<"sec_8k", FACT_SCORING.sec_8k>> >>
    ELSE IF has_other_filing
    THEN << <<"sec_other", FACT_SCORING.sec_other>> >>
    ELSE << >>

\* psi_engine.py:256-257: details["filings"], the titles of the 8-K filings
filings_8k(news) ==
    SelectSeq([i \in 1..Len(news) |-> IF ArticleIsFiling(news[i]) /\ TitleIs8K(news[i])
                                      THEN Get(news[i], "title", "") ELSE ""],
              LAMBDA t : t # "")

\* psi_engine.py:235-295.  Returns [score, factors]; the filings of the
\* details are filings_8k.
_calc_fact_score(news) ==
    LET idx == 1..Len(news)
        has_8k == \E i \in idx : ArticleIsFiling(news[i]) /\ TitleIs8K(news[i])
        has_other_filing == \E i \in idx : ArticleIsFiling(news[i]) /\ ~TitleIs8K(news[i])
        has_regulatory ==
            \E i \in idx : HasTerm("regulatory", Lower(Get(news[i], "title", "")))
        has_earnings ==
            \E i \in idx : HasTerm("earnings", Lower(Get(news[i], "title", "")))
        sources_count == {Get(news[i], "source", "") : i \in idx}
        f1 == filing_factors(has_8k, has_other_filing)
        f2 == IF has_regulatory
              THEN << <<"regulatory", FACT_SCORING.regulatory>> >>
              ELSE << >>
        f3 == IF has_earnings
              THEN << <<"earnings_window", FACT_SCORING.earnings_window>> >>
              ELSE << >>
        f4 == IF Cardinality(sources_count) >= 3
              THEN << <<"multi_source", FACT_SCORING.multi_source>> >>
              ELSE << >>
    IN  Scored(f1 \o f2 \o f3 \o f4, 10)

\* the tiers of |change_pct| as separate ifs, every tier reached counting
price_change_factors_every_tier(change_pct) ==
    (IF change_pct >= 1000 THEN << <<"price_change", 400>> >> ELSE << >>)
    \o (IF change_pct >= 800 THEN << <<"price_change", 300>> >> ELSE << >>)
    \o (IF change_pct >= 500 THEN << <<"price_change", 200>> >> ELSE << >>)
    \o (IF change_pct >= 200 THEN << <<"price_change", 100>> >> ELSE << >>)

\* psi_engine.py:314-325: the tiers of |change_pct| (if / elif chain)
price_change_factors(change_pct) ==
    IF change_pct >= 1000 THEN << <<"price_change", 400>> >>
    ELSE IF change_pct >= 800 THEN << <<"price_change", 300>> >>
    ELSE IF change_pct >= 500 THEN << <<"price_change", 200>> >>
    ELSE IF change_pct >= 200 THEN << <<"price_change", 100>> >>
    ELSE << >>

\* psi_engine.py:300-333.  Returns [boost, factors], the boost in hundredths.
_calc_price_boost(price) ==
    IF price = EmptyDict
    THEN [boost |-> 0, factors |-> << >>]
    ELSE
    LET change_pct == Abs(Get(price, "change_pct", 0))
        f1 == price_change_factors(change_pct)
        vol_ratio == Get(price, "volume_ratio", 100)
        f2 == IF vol_ratio >= 300 THEN << <<"volume", 50>> >> ELSE << >>
        factors == f1 \o f2
    IN  [boost |-> Min(450, SumPoints(factors)), factors |-> factors]

\* the penalty whenever the attention is high, whatever the fact score
_calc_noise_penalty_attention_only(attention_score, fact_score) ==
    IF attention_score >= 5
    THEN Min(NOISE_PENALTY_MAX, (attention_score - fact_score) * 30)
    ELSE 0

\* psi_engine.py:335-339, in hundredths
_calc_noise_penalty(attention_score, fact_score) ==
    IF attention_score >= 5 /\ fact_score <= 2
    THEN Min(NOISE_PENALTY_MAX, (attention_score - fact_score) * 30)
    ELSE 0

\* _get_level with bands closed at both ends
_get_level_closed_bands(psi) ==
    LET hits == {i \in 1..Len(psi_levels) :
                    psi_levels[i].low <= psi /\ psi <= psi_levels[i].high}
    IN  IF hits # {}
        THEN psi_levels[CHOOSE i \in hits : \A j \in hits : i <= j].level
        ELSE IF psi >= 700 THEN "critical" ELSE "normal"

\* psi_engine.py:341-346
_get_level(psi) ==
    LET hits == {i \in 1..Len(psi_levels) :
                    psi_levels[i].low <= psi /\ psi < psi_levels[i].high}
    IN  IF hits # {}
        THEN psi_levels[CHOOSE i \in hits : \A j \in hits : i <= j].level
        ELSE IF psi >= 700 THEN "critical" ELSE "normal"

-----------------------------------------------------------------------------
(* PreSignalEngine.calculate *)

\* psi_engine.py:62: how many of the three scores are high
high_count(opt_score, att_score, fact_score) ==
    LET scores == <<opt_score, att_score, fact_score>>
    IN  Cardinality({i \in 1..3 : scores[i] >= 5})

\* the bonus given for one high score already
confluence_bonus_one_high(opt_score, att_score, fact_score) ==
    IF high_count(opt_score, att_score, fact_score) >= 1 THEN CONFLUENCE_BONUS ELSE 0

\* psi_engine.py:63
confluence_bonus(opt_score, att_score, fact_score) ==
    IF high_count(opt_score, att_score, fact_score) >= 2 THEN CONFLUENCE_BONUS ELSE 0

\* the sum with the noise penalty added instead of taken off
psi_sum_noise_added(opt_score, att_score, fact_score, confluence, price_boost, noise) ==
    score_weights.options * opt_score +
    score_weights.attention * att_score +
    score_weights.fact * fact_score +
    confluence + price_boost + noise

\* psi_engine.py:69-74: the sum before rounding, in hundredths
psi_sum(opt_score, att_score, fact_score, confluence, price_boost, noise) ==
    score_weights.options * opt_score +
    score_weights.attention * att_score +
    score_weights.fact * fact_score +
    confluence + price_boost - noise

\* round(x, 1) of a value held in hundredths: the nearest multiple of 0.1.
\* The code rounds a binary float, so that a value the decimal arithmetic
\* puts exactly between two tenths (x.x5) goes to the one or to the other,
\* depending on the representation error of the operands: both are results.
round1(x) ==
    LET q == x \div 10
        rem == x % 10
    IN  IF rem < 5 THEN {10 * q}
        ELSE IF rem > 5 THEN {10 * (q + 1)}
        ELSE {10 * q, 10 * (q + 1)}

\* the clamp without its upper end
clamp_psi_from_below(x) == Max(0, x)

\* psi_engine.py:75: max(0, min(10, .)) of a value in hundredths
clamp_psi(x) == Max(0, Min(1000, x))

\* a plain INSERT, which keeps the row of an earlier call at the same time
save_psi_score_insert_only(table, row) == table \o <<row>>

\* storage/database.py:201-213: INSERT OR REPLACE under UNIQUE(ticker, timestamp)
save_psi_score(table, row) ==
    SelectSeq(table, LAMBDA r : ~(r.ticker = row.ticker /\ r.timestamp = row.timestamp))
        \o <<row>>

\* psi_engine.py:97-108: the result, of the four component results (each
\* computed once), the sum rounded and the time of the call
calculate_result(opt, att, fact, pb, filings, news_count, rounded, timestamp) ==
    [ticker |-> Ticker,
     timestamp |-> timestamp,
     options_score |-> opt.score,
     attention_score |-> att.score,
     fact_score |-> fact.score,
     confluence_bonus |-> confluence_bonus(opt.score, att.score, fact.score),
     noise_penalty |-> _calc_noise_penalty(att.score, fact.score),
     psi_total |-> clamp_psi(rounded),
     level |-> _get_level(clamp_psi(rounded)),
     details |->
        [options |-> [factors |-> opt.factors],
         attention |-> [factors |-> att.factors],
         fact |-> [factors |-> fact.factors, filings |-> filings, news_count |-> news_count],
         price_boost |-> [factors |-> pb.factors],
         confluence |-> [bonus |-> confluence_bonus(opt.score, att.score, fact.score),
                         high_count |-> high_count(opt.score, att.score, fact.score)],
         noise |-> [penalty |-> _calc_noise_penalty(att.score, fact.score)],
         formula |-> [weights |-> score_weights,
                      options |-> opt.score, attention |-> att.score,
                      fact |-> fact.score, price_boost |-> pb.boost,
                      confluence |-> confluence_bonus(opt.score, att.score, fact.score),
                      noise |-> _calc_noise_penalty(att.score, fact.score),
                      psi |-> clamp_psi(rounded)]]]

\* psi_engine.py:61-75: the totals calculate can give for the three scores
\* and the price boost (two of them where the sum is between two tenths)
psi_total(opt_score, att_score, fact_score, price_boost) ==
    {clamp_psi(rounded) :
        rounded \in round1(psi_sum(opt_score, att_score, fact_score,
                                   confluence_bonus(opt_score, att_score, fact_score),
                                   price_boost,
                                   _calc_noise_penalty(att_score, fact_score)))}

\* psi_engine.py:61-75 applied to the next of the arguments
CombineScores ==
    /\ Len(combine_totals) < Len(combine_args)
    /\ \E a \in {combine_args[Len(combine_totals) + 1]} :
         \E total \in psi_total(a.options, a.attention, a.fact, a.price_boost) :
             combine_totals' = Append(combine_totals, total)
    /\ UNCHANGED combine_args
    /\ UNCHANGED <<engine_vars, telegram_vars, alert_vars, scan_vars>>

\* telegram.py:42-89: send_telegram. replies are the answers of the server
\* to the first and to the second request, should they be made: a status
\* code, or the exception requests.post raises. The result is the requests
\* made, each with the answer it got, and the value returned. (The waits
\* between two sends, 1.5 s at most and 0.5 s, change nothing else.)
send_telegram_retry_any(config, text, parse_mode, replies) ==
    LET request(mode, i) == [text |-> text, parse_mode |-> mode, reply |-> replies[i]]
        ok(i) == "status_code" \in DOMAIN replies[i] /\ replies[i].status_code = 200
    IN  IF config.TOKEN = "" \/ config.CHAT_ID = ""
        THEN [requests |-> << >>, returned |-> FALSE]
        ELSE IF "raised" \in DOMAIN replies[1] \/ ok(1)
        THEN [requests |-> <<request(parse_mode, 1)>>, returned |-> ok(1)]
        ELSE [requests |-> <<request(parse_mode, 1), request("", 2)>>, returned |-> ok(2)]

send_telegram(config, text, parse_mode, replies) ==
    LET request(mode, i) == [text |-> text, parse_mode |-> mode, reply |-> replies[i]]
    IN  IF config.TOKEN = "" \/ config.CHAT_ID = ""
        THEN [requests |-> << >>, returned |-> FALSE]
        ELSE IF "raised" \in DOMAIN replies[1]
        THEN [requests |-> <<request(parse_mode, 1)>>, returned |-> FALSE]
        ELSE IF replies[1].status_code = 200
        THEN [requests |-> <<request(parse_mode, 1)>>, returned |-> TRUE]
        ELSE IF replies[1].status_code = 400
        THEN [requests |-> <<request(parse_mode, 1), request("", 2)>>,
              returned |-> "status_code" \in DOMAIN replies[2] /\ replies[2].status_code = 200]
        ELSE [requests |-> <<request(parse_mode, 1)>>, returned |-> FALSE]

\* what the server answers to a request, or what requests.post raises
Replies ==
    {[status_code |-> 200], [status_code |-> 400], [status_code |-> 403],
     [status_code |-> 429], [status_code |-> 500], [raised |-> "Timeout"]}

\* the callers pass the text alone; the parameter allows any mode
ParseModes == {"Markdown", "HTML", ""}

MaxSends == 2

\* a caller calls send_telegram
SendTelegram ==
    /\ Len(telegram_calls) < MaxSends
    /\ \E text \in {"*AMAT* PSI 7.5", "AMAT_up"}, parse_mode \in ParseModes,
          replies \in Replies \X Replies :
         \E done \in {send_telegram(telegram_config, text, parse_mode, replies)} :
             telegram_calls' = Append(telegram_calls,
                 [text |-> text, parse_mode |-> parse_mode,
                  requests |-> done.requests, returned |-> done.returned])
    /\ UNCHANGED telegram_config
    /\ UNCHANGED <<engine_vars, combine_vars, alert_vars, scan_vars>>

-----------------------------------------------------------------------------
(* engines/ai_summarizer.py.  The answer of the service is given as what   *)
(* the code reads of it: the exception of requests.post, or the status     *)
(* code and what resp.json() gives, a dict or the exception of a body that *)
(* is no JSON.  The content of the message is [open, text, close]: the     *)
(* text between an opening fence of three backquotes ("fence" when the     *)
(* text follows on the same line, "fence_line" when a line break follows)  *)
(* and a closing fence, either of which may be missing (""), and the text  *)
(* is [not_json |-> its characters] or                                     *)
(* [json |-> the value json.loads gives for it], a value being             *)
(* [dict |-> d], [list |-> l], [number |-> n] or [string |-> s].  The      *)
(* prompt, which the answer is not computed from, and key_source with      *)
(* primary_source_index, which fill a field that nothing reads, are left   *)
(* out.                                                                    *)

\* ai_summarizer.py:146-154: the event type of the fallback, from the headline
fallback_event_type(headline) ==
    LET title_lower == lower(headline)
        any(words) == \E w \in words : In(w, title_lower)
    IN  IF any({"earnings", "eps", "revenue", "quarter"}) THEN "earnings"
        ELSE IF any({"deal", "partner", "contract"}) THEN "partnership"
        ELSE IF any({"upgrade", "downgrade", "target", "rating"}) THEN "analyst"
        ELSE IF any({"bis", "fda", "sec", "sanction", "export"}) THEN "regulatory"
        ELSE "other"

\* ai_summarizer.py:136-172: the summary made without the service (the
\* headline for no title is a Korean sentence with the ticker: "")
_fallback_summary(ticker, news, price) ==
    LET headline == IF news # << >> THEN Slice(Get(news[1], "title", ""), 45) ELSE ""
        change == IF Truthy(price) THEN Get(price, "change_pct", 0) ELSE 0
    IN  [headline |-> headline,
         detail |-> "",
         classification |-> IF change >= 200 THEN "Catalyst"
                            ELSE IF change <= -200 THEN "Fracture" ELSE "Noise",
         confidence |-> [number |-> 50],
         event_type |-> IF news # << >> THEN fallback_event_type(headline) ELSE "other",
         source_count |-> Len(news),
         ai_generated |-> FALSE]

\* ai_summarizer.py:109-113: the value json.loads gives for the content
\* once the fences are cut off, or the exception raised on the way: a
\* content that opens with a fence is cut at its first line break
\* (IndexError when the fence and the text share the line) and before its
\* last fence
parsed_content(content) ==
    IF content.open = "fence" THEN [raised |-> "IndexError"]
    ELSE IF "not_json" \in DOMAIN content.text THEN [raised |-> "JSONDecodeError"]
    ELSE IF content.open = "" /\ content.close # "" THEN [raised |-> "JSONDecodeError"]
    ELSE content.text.json

\* the summary that takes for a record whatever json.loads gave
summarize_event_unchecked(key, ticker, news, price, reply) ==
    IF key = "" \/ "raised" \in DOMAIN reply \/ reply.status_code # 200
    THEN _fallback_summary(ticker, news, price)
    ELSE [ai_generated |-> TRUE, source_count |-> Len(news)]

\* ai_summarizer.py:28-133: summarize_event
summarize_event(key, ticker, news, price, reply) ==
    IF key = "" THEN _fallback_summary(ticker, news, price)
    ELSE IF "raised" \in DOMAIN reply THEN _fallback_summary(ticker, news, price)
    ELSE IF reply.status_code # 200 THEN _fallback_summary(ticker, news, price)
    ELSE IF "raised" \in DOMAIN reply.json THEN _fallback_summary(ticker, news, price)
    ELSE IF "choices" \notin DOMAIN reply.json THEN _fallback_summary(ticker, news, price)
    ELSE IF reply.json.choices = << >> THEN _fallback_summary(ticker, news, price)
    ELSE LET result == parsed_content(reply.json.choices[1].message.content)
         IN  IF "dict" \notin DOMAIN result THEN _fallback_summary(ticker, news, price)
             ELSE [ai_generated |-> TRUE, source_count |-> Len(news)] @@ result.dict

-----------------------------------------------------------------------------
(* alerts/alert_system.py and the alerts table of storage/database.py.  A  *)
(* timestamp is the time it was taken at, in seconds: isoformat writes it, *)
(* fromisoformat reads it back, and the texts are ordered as the times.    *)
(* Of the message the parts that depend on a verdict are kept.             *)

ALERT_COOLDOWN_MINUTES == 30

NOISE_ALERTS_MAX_PER_DAY == 3

\* database.py:301-308: the timestamp of the latest alert of the ticker, or None
get_last_alert_time(table, ticker) ==
    LET times == {table[i].timestamp : i \in {k \in DOMAIN table : table[k].ticker = ticker}}
    IN  IF times = {} THEN None
        ELSE [timestamp |-> CHOOSE t \in times : \A u \in times : u <= t]

\* database.py:321-330: the Noise alerts of the ticker since 00:00 of the day
count_noise_alerts_today(table, ticker, at) ==
    Cardinality({i \in DOMAIN table :
        /\ table[i].ticker = ticker
        /\ table[i].classification = "Noise"
        /\ table[i].timestamp >= at - (at % 86400)})

\* the gate that looks at the age of the last alert for Noise alone
should_send_alert_noise_only(table, ticker, classification, at) ==
    LET last_time == get_last_alert_time(table, ticker)
    IN  IF classification # "Noise" THEN TRUE
        ELSE IF last_time # None /\ at - last_time.timestamp < ALERT_COOLDOWN_MINUTES * 60
        THEN FALSE
        ELSE count_noise_alerts_today(table, ticker, at) < NOISE_ALERTS_MAX_PER_DAY

\* alert_system.py:145-159: should_send_alert, called at the time at
should_send_alert(table, ticker, classification, at) ==
    LET last_time == get_last_alert_time(table, ticker)
    IN  IF last_time # None /\ at - last_time.timestamp < ALERT_COOLDOWN_MINUTES * 60
        THEN FALSE
        ELSE IF classification = "Noise"
        THEN count_noise_alerts_today(table, ticker, at) < NOISE_ALERTS_MAX_PER_DAY
        ELSE TRUE

\* alert_system.py:207, 321: PLAYBOOKS.get(cls_type, PLAYBOOKS["Noise"]), by its key
alert_playbook(cls_type) ==
    IF cls_type \in {"Catalyst", "Fracture", "Noise"} THEN cls_type ELSE "Noise"

\* alert_system.py:184-268: format_telegram_alert; the message by its type,
\* its confidence in percent, its headline and its playbook, or the
\* exception of the format {confidence:.0%} for what is no number
format_telegram_alert(flash, ai_summary) ==
    LET cands == Get(flash, "reason_candidates", << >>)
        rule_cls == Get(flash, "classification", EmptyDict)
        from_ai == ai_summary # None /\ Get(ai_summary, "ai_generated", FALSE)
        cls_type == IF from_ai THEN Get(ai_summary, "classification", "Noise")
                    ELSE Get(rule_cls, "type", "Noise")
        confidence == IF from_ai THEN Get(ai_summary, "confidence", [number |-> 50])
                      ELSE [number |-> Get(rule_cls, "confidence", 50)]
        headline == IF from_ai THEN Get(ai_summary, "headline", "")
                    ELSE IF cands # << >> THEN Slice(Get(cands[1], "title", ""), 50) ELSE ""
    IN  IF "number" \notin DOMAIN confidence THEN [raised |-> "ValueError"]
        ELSE [cls_type |-> cls_type, confidence |-> confidence.number,
              headline |-> headline, playbook |-> alert_playbook(cls_type)]

\* database.py:216-231: INSERT OR REPLACE on the unique alert_id
save_alert(table, row) ==
    SelectSeq(table, LAMBDA r : r.alert_id # row.alert_id) \o <<row>>

\* alert_system.py:275-326: send_alert, called at the time at with the
\* arguments a; a.reply is the answer of the summarizer's service,
\* a.telegram_replies those of Telegram, a.took the time from the gate to
\* the insertion.  The result is the record of the call (the arguments, the
\* verdicts, the cls_type that goes to the gate, the message, the row
\* stored, the value returned or the exception raised), the table, the call
\* of send_telegram if one was made, and the time at the return.
send_alert(table, telegram, key, a, at) ==
    LET classification == Get(a.flash_result, "classification", EmptyDict)
        ai_summary == IF a.news_data # << >>
                      THEN summarize_event(key, a.ticker, a.news_data, a.price_data, a.reply)
                      ELSE None
        from_ai == ai_summary # None /\ ai_summary.ai_generated
        cls_type == IF from_ai
                    THEN Get(ai_summary, "classification", Get(classification, "type", "Unknown"))
                    ELSE Get(classification, "type", "Unknown")
        tg_msg == format_telegram_alert(a.flash_result, ai_summary)
        sent == send_telegram(telegram, tg_msg, "Markdown", a.telegram_replies)
        row == [alert_id |-> <<a.ticker, at + a.took>>,
                ticker |-> a.ticker,
                timestamp |-> at + a.took,
                trigger_type |-> a.trigger_type,
                psi_total |-> Get(a.psi_result, "psi_total", 0),
                classification |-> cls_type,
                confidence |-> Get(classification, "confidence", 0),
                playbook_id |-> alert_playbook(cls_type),
                sent_via |-> IF sent.returned THEN "both" ELSE "console"]
        call == [args |-> a, rule |-> classification,
                 at |-> at, ai_summary |-> ai_summary, cls_type |-> cls_type]
    IN  IF ~a.force /\ ~should_send_alert(table, a.ticker, cls_type, at)
        THEN [call |-> call @@ [message |-> None, stored |-> None, returned |-> [value |-> FALSE]],
              alerts |-> table, telegram |-> << >>, now |-> at]
        ELSE IF "raised" \in DOMAIN tg_msg
        THEN [call |-> call @@ [message |-> None, stored |-> None, returned |-> tg_msg],
              alerts |-> table, telegram |-> << >>, now |-> at]
        ELSE [call |-> call @@ [message |-> tg_msg, stored |-> row, returned |-> [value |-> TRUE]],
              alerts |-> save_alert(table, row),
              telegram |-> <<[text |-> tg_msg, parse_mode |-> "Markdown",
                              requests |-> sent.requests, returned |-> sent.returned]>>,
              now |-> at + a.took]

MaxAlertCalls == 3

\* a call of send_alert, made a.wait after the call before it
SendAlert ==
    /\ Len(alert_calls) < MaxAlertCalls
    /\ \E a \in alert_args :
         \E done \in {send_alert(alerts, telegram_config, summary_config.OPENAI_API_KEY, a, now + a.wait)} :
            /\ alert_calls' = Append(alert_calls, done.call)
            /\ alerts' = done.alerts
            /\ telegram_calls' = telegram_calls \o done.telegram
            /\ now' = done.now
    /\ UNCHANGED <<summary_config, alert_args, telegram_config>>
    /\ UNCHANGED <<engine_state, combine_vars, scan_vars>>

\* psi_engine.py:27-30: __init__ checks nothing of the configuration
\* (self.watch, which no method of the engine reads, is left out)
Construct ==
    /\ engine = None
    /\ engine' = [ticker |-> Ticker]
    /\ details' = EmptyDict
    /\ UNCHANGED <<score_weights, psi_levels, options_data, social_data, news_data,
                   price_data, candidates, psi_arg, now, psi_result, psi_scores,
                   flash_result, level_result>>
    /\ UNCHANGED outer_vars

\* psi_engine.py:32-124, a method of the constructed engine
Calculate ==
    /\ engine # None
    /\ psi_result = None
    /\ \E opt \in {_calc_options_score(OrEmptyDict(options_data))},
          att \in {_calc_attention_score(OrEmptyDict(social_data), news_data)},
          fact \in {_calc_fact_score(news_data)},
          pb \in {_calc_price_boost(OrEmptyDict(price_data))} :
         \E rounded \in round1(psi_sum(opt.score, att.score, fact.score,
                                        confluence_bonus(opt.score, att.score, fact.score),
                                        pb.boost,
                                        _calc_noise_penalty(att.score, fact.score))) :
           \E result \in {calculate_result(opt, att, fact, pb, filings_8k(news_data),
                                           Len(news_data), rounded, now)} :
             /\ details' = result.details
             /\ psi_result' = result
             /\ psi_scores' = save_psi_score(psi_scores, result)
    /\ UNCHANGED <<engine, score_weights, psi_levels,
                   options_data, social_data, news_data, price_data, candidates, psi_arg, now,
                   flash_result, level_result>>
    /\ UNCHANGED outer_vars

-----------------------------------------------------------------------------
(* datetime: a point in time is the number of seconds since 2000-01-01T00:00:00 *)

IsDigit(c) == c \in {"0", "1", "2", "3", "4", "5", "6", "7", "8", "9"}

Digit(c) ==
    CASE c = "0" -> 0 [] c = "1" -> 1 [] c = "2" -> 2 [] c = "3" -> 3 [] c = "4" -> 4
      [] c = "5" -> 5 [] c = "6" -> 6 [] c = "7" -> 7 [] c = "8" -> 8 [] c = "9" -> 9

AllDigits(s) == \A i \in 1..Len(s) : IsDigit(SubSeq(s, i, i))

\* int(s) of a string of digits
ToInt(s) ==
    LET value[i \in 0..Len(s)] ==
            IF i = 0 THEN 0 ELSE 10 * value[i - 1] + Digit(SubSeq(s, i, i))
    IN  value[Len(s)]

IsLeap(y) == y % 4 = 0 /\ (y % 100 # 0 \/ y % 400 = 0)

DaysInMonth(y, m) ==
    IF m = 2 THEN (IF IsLeap(y) THEN 29 ELSE 28)
    ELSE IF m \in {4, 6, 9, 11} THEN 30 ELSE 31

\* the days of year y before its month m
DaysBeforeMonth(y, m) ==
    LET days[k \in 0..12] == IF k = 0 THEN 0 ELSE days[k - 1] + DaysInMonth(y, k)
    IN  days[m - 1]

\* date.toordinal(): the day's number, 0001-01-01 being day 1
Ordinal(y, m, d) ==
    (y - 1) * 365 + ((y - 1) \div 4) - ((y - 1) \div 100) + ((y - 1) \div 400)
        + DaysBeforeMonth(y, m) + d

Seconds(y, m, d, hh, mm, ss) ==
    (Ordinal(y, m, d) - Ordinal(2000, 1, 1)) * 86400 + hh * 3600 + mm * 60 + ss

\* the date and the time of the fields: [value |-> the point in time], or
\* [raised |-> "ValueError"] where a field is out of its range
datetime(y, m, d, hh, mm, ss) ==
    IF /\ y >= 1 /\ m \in 1..12 /\ d >= 1 /\ d <= DaysInMonth(y, m)
       /\ hh <= 23 /\ mm <= 59 /\ ss <= 59
    THEN [value |-> Seconds(y, m, d, hh, mm, ss)]
    ELSE [raised |-> "ValueError"]

\* ts has one of the forms YYYY-MM-DD, YYYY-MM-DD?HH:MM and
\* YYYY-MM-DD?HH:MM:SS (? is any one character)
IsIsoFormat(ts) ==
    /\ Len(ts) \in {10, 16, 19}
    /\ AllDigits(SubSeq(ts, 1, 4)) /\ SubSeq(ts, 5, 5) = "-"
    /\ AllDigits(SubSeq(ts, 6, 7)) /\ SubSeq(ts, 8, 8) = "-"
    /\ AllDigits(SubSeq(ts, 9, 10))
    /\ Len(ts) >= 16 => (/\ AllDigits(SubSeq(ts, 12, 13)) /\ SubSeq(ts, 14, 14) = ":"
                         /\ AllDigits(SubSeq(ts, 15, 16)))
    /\ Len(ts) = 19 => (SubSeq(ts, 17, 17) = ":" /\ AllDigits(SubSeq(ts, 18, 19)))

\* datetime.fromisoformat(ts) for these three forms.  Forms with a fraction
\* of a second or a UTC offset are not read.
fromisoformat(ts) ==
    IF IsIsoFormat(ts)
    THEN datetime(ToInt(SubSeq(ts, 1, 4)), ToInt(SubSeq(ts, 6, 7)), ToInt(SubSeq(ts, 9, 10)),
                  IF Len(ts) >= 16 THEN ToInt(SubSeq(ts, 12, 13)) ELSE 0,
                  IF Len(ts) >= 16 THEN ToInt(SubSeq(ts, 15, 16)) ELSE 0,
                  IF Len(ts) = 19 THEN ToInt(SubSeq(ts, 18, 19)) ELSE 0)
    ELSE [raised |-> "ValueError"]

Timestamps == {Get(a, "timestamp", "") : a \in NewsUniverse}

TimeTable == [ts \in Timestamps |-> fromisoformat(ts)]

\* fromisoformat of the timestamp of an item
PubTime(ts) == TimeTable[ts]

-----------------------------------------------------------------------------
(* FlashReasonEngine: ranking the news and drawing the candidates *)

\* psi_engine.py:411-414: the weight of the source, in hundredths
source_weight(article) ==
    IF "source_type" \in DOMAIN article /\ article.source_type = "filing" THEN 30
    ELSE IF "source" \in DOMAIN article /\ article.source \in {"finnhub", "sec_edgar"} THEN 20
    ELSE 0

\* psi_engine.py:421-431: the weight of the article's age, in hundredths;
\* the age is compared with 1, 6 and 24 hours
recency_weight(pub_time, utcnow) ==
    IF "raised" \in DOMAIN pub_time THEN 0
    ELSE LET seconds_ago == utcnow - pub_time.value
         IN  IF seconds_ago < 3600 THEN 30
             ELSE IF seconds_ago < 6 * 3600 THEN 20
             ELSE IF seconds_ago < 24 * 3600 THEN 10
             ELSE 0

\* psi_engine.py:403-433: article['relevance_score'], in hundredths
relevance_score(article, utcnow) ==
    LET title == Lower(Get(article, "title", ""))
        matched == Get(article, "keywords_matched", << >>)
    IN  Min(100, Len(matched) * 10
                 + source_weight(article)
                 + (IF HasTerm("breaking", title) THEN 20 ELSE 0)
                 + recency_weight(PubTime(Get(article, "timestamp", "")), utcnow))

\* psi_engine.py:402-433: the loop writes relevance_score into every article
\* of the caller's list
with_relevance(news, utcnow) ==
    [i \in DOMAIN news |->
        [k \in DOMAIN news[i] \cup {"relevance_score"} |->
            IF k = "relevance_score" THEN relevance_score(news[i], utcnow) ELSE news[i][k]]]

\* the sort with equal scores in the reverse of the order of the list
sorted_by_relevance_ties_reversed(news) ==
    LET before(i) == {j \in DOMAIN news :
                        \/ news[j].relevance_score > news[i].relevance_score
                        \/ news[j].relevance_score = news[i].relevance_score /\ j > i}
    IN  [k \in DOMAIN news |-> news[CHOOSE i \in DOMAIN news : Cardinality(before(i)) = k - 1]]

\* psi_engine.py:436: sorted(..., reverse=True) by relevance_score; the sort
\* is stable, equal scores keep the order of the list.  The place of an item
\* is one more than the number of items that go before it.
sorted_by_relevance(news) ==
    LET before(i) == {j \in DOMAIN news :
                        \/ news[j].relevance_score > news[i].relevance_score
                        \/ news[j].relevance_score = news[i].relevance_score /\ j < i}
    IN  [k \in DOMAIN news |-> news[CHOOSE i \in DOMAIN news : Cardinality(before(i)) = k - 1]]

\* psi_engine.py:438-456: the first category of type_keywords that has a
\* keyword in the lower-cased title
\* the last category that matches
last_type(hits) ==
    IF hits = {} THEN "other"
    ELSE TYPE_KEYWORDS[CHOOSE i \in hits : \A j \in hits : i >= j].type

\* psi_engine.py:452-456: the first category, in the order of the dict, among
\* those that match
first_type(hits) ==
    IF hits = {} THEN "other"
    ELSE TYPE_KEYWORDS[CHOOSE i \in hits : \A j \in hits : i <= j].type

_classify_event_type(article) ==
    first_type({i \in DOMAIN TYPE_KEYWORDS :
                  HasTerm("type_" \o TYPE_KEYWORDS[i].type, Lower(Get(article, "title", "")))})

\* psi_engine.py:369: scored_news[:3]
TopN == 3

\* psi_engine.py:373-384: the candidate made of the item of rank i
\* (item["title"] is read without a default)
candidate(item, i) ==
    [rank |-> i,
     title |-> item.title,
     summary |-> Slice(Get(item, "summary", ""), 200),
     source_url |-> Get(item, "url", ""),
     source |-> Get(item, "source", ""),
     source_type |-> Get(item, "source_type", "news"),
     confidence |-> Get(item, "relevance_score", 50),
     event_type |-> _classify_event_type(item),
     sentiment |-> Get(item, "sentiment", "neutral"),
     timestamp |-> Get(item, "timestamp", "")]

-----------------------------------------------------------------------------
(* FlashReasonEngine._classify_event: what it derives from its arguments *)

\* psi_engine.py:465-466
fact_sources(cands) ==
    Cardinality({i \in DOMAIN cands :
                    /\ "source_type" \in DOMAIN cands[i]
                    /\ cands[i].source_type \in {"filing", "regulatory"}})

\* psi_engine.py:469-471: sentiments.count(which)
sentiment_count(cands, which) ==
    Cardinality({i \in DOMAIN cands : Get(cands[i], "sentiment", "neutral") = which})

\* psi_engine.py:478: the text of one candidate
candidate_text(c) == Lower(TitleAndSummary(c))

\* psi_engine.py:476-479: the texts of the candidates, each followed by a space
all_text(cands) == Joined([i \in DOMAIN cands |-> candidate_text(cands[i])])

\* psi_engine.py:480-483: a keyword of the list called name is in the text of
\* one of the candidates
keyword_found(cands, name) == \E i \in DOMAIN cands : HasTerm(name, candidate_text(cands[i]))

\* psi_engine.py:486-493; change_pct is held in hundredths of a percent
price_direction(price) ==
    IF Truthy(price)
    THEN LET price_change == Get(price, "change_pct", 0)
         IN  IF price_change <= -200 THEN -1
             ELSE IF price_change >= 200 THEN 1
             ELSE 0
    ELSE 0

\* the pattern without the beat keywords
beat_guide_down_by_guidance_only(cands, price) ==
    HasTerm("guide_down", all_text(cands))

\* psi_engine.py:496-511
beat_guide_down(cands, price) ==
    LET has_beat == HasTerm("beat", all_text(cands))
        has_guide_down == HasTerm("guide_down", all_text(cands))
    IN  (has_beat /\ price_direction(price) = -1) \/ has_guide_down

\* the chain whose strong-fall rule asks for a fact source and three news
decide_fall_with_both(has_cands, bgd, direction, facts, n_news, pos_found, neg_found, pos_count, neg_count) ==
    IF ~has_cands THEN [type |-> "Unknown", confidence |-> 0]
    ELSE IF bgd THEN [type |-> "Fracture", confidence |-> 90]
    ELSE IF direction = -1 /\ (facts >= 1 /\ n_news >= 3)
    THEN [type |-> "Fracture", confidence |-> IF facts >= 1 THEN 85 ELSE 70]
    ELSE IF direction = 1 /\ (facts >= 1 \/ pos_found)
    THEN [type |-> "Catalyst", confidence |-> IF facts >= 1 THEN 85 ELSE 70]
    ELSE IF facts >= 1 /\ neg_found /\ ~pos_found
    THEN [type |-> "Fracture", confidence |-> 80]
    ELSE IF facts >= 1 /\ pos_found
    THEN [type |-> "Catalyst", confidence |-> 85]
    ELSE IF pos_count > neg_count /\ n_news >= 5
    THEN [type |-> "Catalyst", confidence |-> 70]
    ELSE IF neg_count > pos_count
    THEN [type |-> "Fracture", confidence |-> 65]
    ELSE [type |-> "Noise", confidence |-> 50]

\* the chain with the strong fall tested before the beat-but-guide-down pattern
decide_fall_first(has_cands, bgd, direction, facts, n_news, pos_found, neg_found, pos_count, neg_count) ==
    IF ~has_cands THEN [type |-> "Unknown", confidence |-> 0]
    ELSE IF direction = -1 /\ (facts >= 1 \/ n_news >= 3)
    THEN [type |-> "Fracture", confidence |-> IF facts >= 1 THEN 85 ELSE 70]
    ELSE IF bgd THEN [type |-> "Fracture", confidence |-> 90]
    ELSE IF direction = 1 /\ (facts >= 1 \/ pos_found)
    THEN [type |-> "Catalyst", confidence |-> IF facts >= 1 THEN 85 ELSE 70]
    ELSE IF facts >= 1 /\ neg_found /\ ~pos_found
    THEN [type |-> "Fracture", confidence |-> 80]
    ELSE IF facts >= 1 /\ pos_found
    THEN [type |-> "Catalyst", confidence |-> 85]
    ELSE IF pos_count > neg_count /\ n_news >= 5
    THEN [type |-> "Catalyst", confidence |-> 70]
    ELSE IF neg_count > pos_count
    THEN [type |-> "Fracture", confidence |-> 65]
    ELSE [type |-> "Noise", confidence |-> 50]

\* psi_engine.py:461-462 and 516-575: the chain of returns.  The confidence
\* is held in hundredths; the reasoning, a message for the reader, is left out.
decide(has_cands, bgd, direction, facts, n_news, pos_found, neg_found, pos_count, neg_count) ==
    IF ~has_cands THEN [type |-> "Unknown", confidence |-> 0]
    ELSE IF bgd THEN [type |-> "Fracture", confidence |-> 90]
    ELSE IF direction = -1 /\ (facts >= 1 \/ n_news >= 3)
    THEN [type |-> "Fracture", confidence |-> IF facts >= 1 THEN 85 ELSE 70]
    ELSE IF direction = 1 /\ (facts >= 1 \/ pos_found)
    THEN [type |-> "Catalyst", confidence |-> IF facts >= 1 THEN 85 ELSE 70]
    ELSE IF facts >= 1 /\ neg_found /\ ~pos_found
    THEN [type |-> "Fracture", confidence |-> 80]
    ELSE IF facts >= 1 /\ pos_found
    THEN [type |-> "Catalyst", confidence |-> 85]
    ELSE IF pos_count > neg_count /\ n_news >= 5
    THEN [type |-> "Catalyst", confidence |-> 70]
    ELSE IF neg_count > pos_count
    THEN [type |-> "Fracture", confidence |-> 65]
    ELSE [type |-> "Noise", confidence |-> 50]

\* psi_engine.py:458-575
_classify_event(cands, all_news, price) ==
    decide(cands # << >>,
           beat_guide_down(cands, price),
           price_direction(price),
           fact_sources(cands),
           Len(all_news),
           keyword_found(cands, "positive"),
           keyword_found(cands, "negative"),
           sentiment_count(cands, "positive"),
           sentiment_count(cands, "negative"))

\* the lookup with the Noise playbook as its default
_get_playbook_noise_by_default(classification) ==
    LET ctype == Get(classification, "type", "Noise")
    IN  IF ctype = "Fracture" THEN [id |-> "PB-FRACTURE-01", reevaluation |-> "close"]
        ELSE IF ctype = "Catalyst" THEN [id |-> "PB-CATALYST-01", reevaluation |-> "close"]
        ELSE [id |-> "PB-NOISE-01", reevaluation |-> "15min"]

\* the confidences _get_playbook is called with, in steps of 0.05
MaxConfidenceStep == 20

\* psi_engine.py:577-617: the playbook's id and reevaluation (the actions, a
\* list of messages for the reader, are left out)
_get_playbook(classification) ==
    LET ctype == Get(classification, "type", "Unknown")
    IN  IF ctype = "Noise" THEN [id |-> "PB-NOISE-01", reevaluation |-> "15min"]
        ELSE IF ctype = "Fracture" THEN [id |-> "PB-FRACTURE-01", reevaluation |-> "close"]
        ELSE IF ctype = "Catalyst" THEN [id |-> "PB-CATALYST-01", reevaluation |-> "close"]
        ELSE [id |-> "PB-UNKNOWN-01", reevaluation |-> "30min"]

\* psi_engine.py:360-398.  The call raises KeyError when one of the three
\* items it draws has no title, after the scores were written into the list.
Analyze ==
    /\ flash_result = None
    /\ \E scored \in {with_relevance(news_data, now)} :
         \E ranked \in {sorted_by_relevance(scored)} :
           \E top3 \in {SubSeq(ranked, 1, Min(TopN, Len(ranked)))} :
             /\ news_data' = scored
             /\ IF \E i \in DOMAIN top3 : "title" \notin DOMAIN top3[i]
                THEN flash_result' = [raised |-> "KeyError"]
                ELSE \E reason_candidates \in {[i \in DOMAIN top3 |-> candidate(top3[i], i)]} :
                       \E classification \in
                              {_classify_event(reason_candidates, scored, price_data)} :
                         flash_result' = [ticker |-> Ticker,
                                          timestamp |-> now,
                                          reason_candidates |-> reason_candidates,
                                          classification |-> classification,
                                          playbook |-> _get_playbook(classification)]
    /\ UNCHANGED <<engine, score_weights, psi_levels,
                   options_data, social_data, price_data, now, candidates, psi_arg,
                   psi_result, details, psi_scores, level_result>>
    /\ UNCHANGED outer_vars

\* psi_engine.py:400-436: a call of _score_and_rank_news itself; the scores
\* are written into the articles of the caller's list, the sorted list is a
\* new one
ScoreAndRankNews ==
    /\ flash_result = None
    /\ \E scored \in {with_relevance(news_data, now)} :
         /\ news_data' = scored
         /\ flash_result' = [ranked |-> sorted_by_relevance(scored)]
    /\ UNCHANGED <<engine, score_weights, psi_levels,
                   options_data, social_data, price_data, now, candidates, psi_arg,
                   psi_result, details, psi_scores, level_result>>
    /\ UNCHANGED outer_vars

\* a call of _classify_event_type itself, on an article of the news list
ClassifyEventType ==
    /\ flash_result = None
    /\ \E i \in DOMAIN news_data :
         flash_result' = [article |-> news_data[i],
                          event_type |-> _classify_event_type(news_data[i])]
    /\ UNCHANGED <<engine, score_weights, psi_levels,
                   options_data, social_data, news_data, price_data, now, candidates, psi_arg,
                   psi_result, details, psi_scores, level_result>>
    /\ UNCHANGED outer_vars

\* the classifications _get_playbook is called with: the types of
\* _classify_event and two others, every confidence, and one without type
Classifications ==
    {[type |-> t, confidence |-> 5 * c] :
        t \in {"Noise", "Fracture", "Catalyst", "Unknown", "Mixed", "noise"},
        c \in 0..MaxConfidenceStep}
    \cup {[confidence |-> 5 * c] : c \in 0..MaxConfidenceStep}

\* a call of _get_playbook itself
GetPlaybook ==
    /\ flash_result = None
    /\ \E classification \in Classifications :
         flash_result' = [classification |-> classification,
                          playbook |-> _get_playbook(classification)]
    /\ UNCHANGED <<engine, score_weights, psi_levels,
                   options_data, social_data, news_data, price_data, now, candidates, psi_arg,
                   psi_result, details, psi_scores, level_result>>
    /\ UNCHANGED outer_vars

\* a call of _classify_event itself, on the candidates, the news and the price
ClassifyEvent ==
    /\ flash_result = None
    /\ flash_result' = [classification |-> _classify_event(candidates, news_data, price_data)]
    /\ UNCHANGED <<engine, score_weights, psi_levels,
                   options_data, social_data, news_data, price_data, now, candidates, psi_arg,
                   psi_result, details, psi_scores, level_result>>
    /\ UNCHANGED outer_vars

\* a call of _get_level itself
GetLevel ==
    /\ level_result = None
    /\ level_result' = [returned |-> _get_level(psi_arg)]
    /\ UNCHANGED <<engine, score_weights, psi_levels,
                   options_data, social_data, news_data, price_data, now, candidates, psi_arg,
                   psi_result, details, psi_scores, flash_result>>
    /\ UNCHANGED outer_vars

-----------------------------------------------------------------------------
(* The inputs the calls are made with *)

\* utcnow() at the call
UtcNow == fromisoformat("2026-02-13T13:00:00").value

OptionsBundles ==
    { Restrict(r, K) :
        r \in [otm_call_volume_ratio : {250, 300, 420, 500, 600},
               short_expiry_pct : {59, 60},
               oi_change_pct : {-50, 49, 55},
               iv_skew_sigma : {-200, 190, 230},
               large_trade_count : {0, 3},
               pc_ratio : {45, 50, 200, 210}],
        K \in SUBSET {"otm_call_volume_ratio", "short_expiry_pct", "oi_change_pct",
                      "iv_skew_sigma", "large_trade_count", "pc_ratio"} }

\* the price changes of the snapshots, in steps of half a percent
MaxChangeHalfPct == 22

PriceSnapshots ==
    { Restrict(r, K) :
        r \in [change_pct : {50 * c : c \in (-MaxChangeHalfPct)..MaxChangeHalfPct}
                            \cup {-201, -199, 199, 201},
               volume_ratio : {0, 100, 299, 300, 500}],
        K \in SUBSET {"change_pct", "volume_ratio"} }

SocialBundles ==
    { Restrict(r, K) :
        r \in [current_mentions : {0, 199, 200, 340, 399, 400},
               previous_mentions : {0, 100},
               breaking_keyword_found : {FALSE, TRUE},
               google_trends_ratio : {199, 200},
               platforms_active : {<< >>, <<"reddit">>, <<"reddit", "stocktwits">>}],
        K \in SUBSET {"current_mentions", "previous_mentions", "breaking_keyword_found",
                      "google_trends_ratio", "platforms_active"} }

\* the longest of the short news lists given to the attention scorer
MaxAttentionNews == 2

\* the longest of the long news lists (the volume rule starts at 10 items)
MaxVolume == 11

AttentionNews ==
    SeqsUpTo(AttentionItems, MaxAttentionNews)
    \cup { Repeat([title |-> "Shares move on volume", summary |-> "Quiet session"], n) :
             n \in 9..MaxVolume }

\* the longest news list given to the fact scorer
MaxFactNews == 3

FactNews == SeqsUpTo(FactItems, MaxFactNews)

\* For calculate as a whole: bundles that give each options score 0..10 ...
ScoreOptions ==
    LET A == [otm_call_volume_ratio |-> 420, short_expiry_pct |-> 65, oi_change_pct |-> 55,
              iv_skew_sigma |-> 230, large_trade_count |-> 3, pc_ratio |-> 45]
        B == [A EXCEPT !.otm_call_volume_ratio = 600]
    IN  { EmptyDict,
          Restrict(A, {"large_trade_count"}),
          Restrict(A, {"short_expiry_pct"}),
          Restrict(A, {"otm_call_volume_ratio"}),
          Restrict(A, {"otm_call_volume_ratio", "large_trade_count"}),
          Restrict(B, {"otm_call_volume_ratio"}),
          Restrict(B, {"otm_call_volume_ratio", "large_trade_count"}),
          Restrict(B, {"otm_call_volume_ratio", "short_expiry_pct"}),
          Restrict(B, {"otm_call_volume_ratio", "short_expiry_pct", "large_trade_count"}),
          Restrict(B, {"otm_call_volume_ratio", "short_expiry_pct", "oi_change_pct"}),
          A,
          B }

\* ... each attention score 0..10 ...
ScoreSocial ==
    LET A == [current_mentions |-> 340, previous_mentions |-> 100,
              breaking_keyword_found |-> TRUE, google_trends_ratio |-> 250,
              platforms_active |-> <<"reddit", "stocktwits">>]
        B == [A EXCEPT !.current_mentions = 500]
        accel == {"current_mentions", "previous_mentions"}
    IN  { EmptyDict,
          Restrict(A, {"platforms_active"}),
          Restrict(A, {"google_trends_ratio"}),
          Restrict(A, accel),
          Restrict(A, {"google_trends_ratio", "breaking_keyword_found"}),
          Restrict(B, accel),
          Restrict(B, accel \cup {"platforms_active"}),
          Restrict(B, accel \cup {"google_trends_ratio"}),
          A,
          Restrict(B, accel \cup {"google_trends_ratio", "breaking_keyword_found"}),
          B }

\* ... each fact score 0..10 ...
ScoreNews ==
    { << >>,
      <<F_PLAIN, F_BARE, [F_PLAIN EXCEPT !.source = "finnhub"]>>,
      <<F_EARNINGS>>,
      <<F_REGULATORY>>,
      <<F_8K>>,
      <<F_REGULATORY, F_EARNINGS>>,
      <<F_8K, F_10Q, F_EARNINGS>>,
      <<F_8K, F_REGULATORY>>,
      <<F_8K, F_REGULATORY, F_PLAIN>>,
      <<F_8K, F_BOTH>>,
      <<F_8K, F_REGULATORY, F_EARNINGS>> }

\* ... and price snapshots of every tier.
ScorePrices ==
    {None, EmptyDict}
    \cup [change_pct : {-1000, -800, -300, 0, 200, 500, 1000}, volume_ratio : {100, 300}]

-----------------------------------------------------------------------------
(* run_scan.py.  The world of a run is what the collectors return (None    *)
(* and the empty list when they raise), the change and the average volume  *)
(* the price table gives check_price_trigger, the answers of the services  *)
(* and whether the run is the one after the close of the market.           *)

TRIGGER_PRICE_CHANGE_5MIN == 200

TRIGGER_VOLUME_RATIO == 300

\* price_collector.py:144-187: check_price_trigger, of what get_price_change
\* and get_avg_volume return
check_price_trigger(change_info, avg_vol) ==
    IF change_info = None THEN None
    ELSE LET by_price == Abs(change_info.change_pct) >= TRIGGER_PRICE_CHANGE_5MIN
             by_volume == avg_vol # 0
                          /\ change_info.latest_volume * 100 >= TRIGGER_VOLUME_RATIO * avg_vol
         IN  IF by_price \/ by_volume
             THEN [triggered |-> TRUE,
                   triggers |-> (IF by_price THEN <<"price_change">> ELSE << >>)
                                \o (IF by_volume THEN <<"volume_surge">> ELSE << >>)]
             ELSE None

\* psi_engine.py:32-110: the results calculate can return at the time at
\* (two where the sum is between two tenths)
calculate(options, social, news, price, at) ==
    LET opt == _calc_options_score(OrEmptyDict(options))
        att == _calc_attention_score(OrEmptyDict(social), news)
        fact == _calc_fact_score(news)
        pb == _calc_price_boost(OrEmptyDict(price))
    IN  {calculate_result(opt, att, fact, pb, filings_8k(news), Len(news), rounded, at) :
            rounded \in round1(psi_sum(opt.score, att.score, fact.score,
                                       confluence_bonus(opt.score, att.score, fact.score),
                                       pb.boost,
                                       _calc_noise_penalty(att.score, fact.score)))}

\* psi_engine.py:360-398: what analyze returns at the time at, or the
\* KeyError it raises
analyze(news, price, at) ==
    LET scored == with_relevance(news, at)
        ranked == sorted_by_relevance(scored)
        top3 == SubSeq(ranked, 1, Min(TopN, Len(ranked)))
        reason_candidates == [i \in DOMAIN top3 |-> candidate(top3[i], i)]
        classification == _classify_event(reason_candidates, scored, price)
    IN  IF \E i \in DOMAIN top3 : "title" \notin DOMAIN top3[i]
        THEN [raised |-> "KeyError"]
        ELSE [ticker |-> Ticker, timestamp |-> at, reason_candidates |-> reason_candidates,
              classification |-> classification, playbook |-> _get_playbook(classification)]

\* run_scan.py:68-70, 76-77: the arguments of a call of send_alert of the scan
scan_alert(ticker, psi, flash, trigger_type, force, w) ==
    [ticker |-> ticker, psi_result |-> psi, flash_result |-> flash,
     trigger_type |-> trigger_type, news_data |-> w.all_news, price_data |-> w.price_data,
     force |-> force, reply |-> w.reply, telegram_replies |-> w.telegram_replies,
     wait |-> 0, took |-> w.took]

\* the record of a run of scan_single: the psi_total, whether analyze was
\* called, what check_price_trigger returned if it was called, the trigger
\* types send_alert was called with, in order
scan_run(ticker, psi, analysed, price_trigger, sent) ==
    [ticker |-> ticker, psi_total |-> psi.psi_total, analysed |-> analysed,
     price_trigger |-> price_trigger,
     send_alert |-> [i \in DOMAIN sent |-> sent[i].call.args.trigger_type]]

\* what a run of scan_single leaves: its record, the value returned or the
\* exception raised, the row written to psi_scores, and of the calls of
\* send_alert (sent, in order; table and at are those before the first) the
\* alerts table, the records, the calls of send_telegram, the time at the end
scan_outcome(run, returned, psi, sent, table, at) ==
    [run |-> run, returned |-> returned, stored |-> <<psi>>,
     alerts |-> IF sent = << >> THEN table ELSE sent[Len(sent)].alerts,
     alert_calls |-> [i \in DOMAIN sent |-> sent[i].call],
     telegram |-> IF sent = << >> THEN << >> ELSE sent[Len(sent)].telegram,
     now |-> IF sent = << >> THEN at ELSE sent[Len(sent)].now]

\* run_scan.py:79-85: the dict scan_single returns
scan_result(ticker, psi, flash, w) ==
    [ticker |-> ticker, psi |-> psi.psi_total, level |-> psi.level,
     cls |-> IF flash # None THEN flash.classification.type ELSE "-",
     news |-> Len(w.all_news)]

\* run_scan.py:76-85: the price alert was asked for (sent_2)
scan_price_sent(ticker, w, psi, flash_2, sent_2, pt, table, at) ==
    scan_outcome(scan_run(ticker, psi, TRUE, [returned |-> pt], sent_2),
                 IF "raised" \in DOMAIN sent_2[1].call.returned
                 THEN sent_2[1].call.returned
                 ELSE scan_result(ticker, psi, flash_2, w),
                 psi, sent_2, table, at)

\* run_scan.py:75-77: the price path, with the flash_result of line 75
scan_price_alert(ticker, w, psi, flash_2, pt, table, telegram, key, at) ==
    IF "raised" \in DOMAIN flash_2
    THEN scan_outcome(scan_run(ticker, psi, TRUE, [returned |-> pt], << >>),
                      flash_2, psi, << >>, table, at)
    ELSE scan_price_sent(ticker, w, psi, flash_2,
                         <<send_alert(table, telegram, key,
                                      scan_alert(ticker, psi, flash_2, "price_surge",
                                                 FALSE, w), at)>>,
                         pt, table, at)

\* run_scan.py:72-85: after the PSI path, with the flash_result it left and
\* the call of send_alert it made (sent_1, empty or one call)
scan_price_path(ticker, w, psi, flash_1, sent_1, pt, table, telegram, key, at) ==
    IF sent_1 # << >> /\ "raised" \in DOMAIN sent_1[1].call.returned
    THEN scan_outcome(scan_run(ticker, psi, TRUE, None, sent_1),
                      sent_1[1].call.returned, psi, sent_1, table, at)
    ELSE IF pt # None /\ pt.triggered /\ flash_1 = None
    THEN scan_price_alert(ticker, w, psi, analyze(w.all_news, w.price_data, at),
                          pt, table, telegram, key, at)
         \* with flash_1 = None no call was made on the PSI path: the table
         \* and the time are those of the start
    ELSE scan_outcome(scan_run(ticker, psi, flash_1 # None, [returned |-> pt], sent_1),
                      scan_result(ticker, psi, flash_1, w), psi, sent_1, table, at)

\* run_scan.py:61-70: the PSI path, with the flash_result of line 64
\* (None when analyze was not called)
scan_psi_path(ticker, FORCE_ALERT, w, psi, flash_1, table, telegram, key, at) ==
    IF flash_1 # None /\ "raised" \in DOMAIN flash_1
    THEN scan_outcome(scan_run(ticker, psi, TRUE, None, << >>), flash_1, psi, << >>, table, at)
    ELSE scan_price_path(ticker, w, psi, flash_1,
                         IF flash_1 # None /\ (psi.psi_total >= 700 \/ FORCE_ALERT)
                         THEN <<send_alert(table, telegram, key,
                                           scan_alert(ticker, psi, flash_1, "psi_critical",
                                                      FORCE_ALERT, w), at)>>
                         ELSE << >>,
                         check_price_trigger(w.price_change, w.avg_volume),
                         table, telegram, key, at)

\* run_scan.py:29-85: scan_single at the time at, psi being what calculate
\* returned.  (analyze writes relevance_score into the items of all_news,
\* which send_alert does not read.)
scan_single(ticker, config, w, psi, table, telegram, key, at) ==
    IF ticker \notin {config.WATCHLIST[i] : i \in DOMAIN config.WATCHLIST}
    THEN [run |-> [ticker |-> ticker, psi_total |-> None, analysed |-> FALSE,
                   price_trigger |-> None, send_alert |-> << >>],
          returned |-> EmptyDict, stored |-> << >>, alerts |-> table,
          alert_calls |-> << >>, telegram |-> << >>, now |-> at]
    ELSE scan_psi_path(ticker, config.FORCE_ALERT, w, psi,
                       IF psi.psi_total >= 500 \/ config.FORCE_ALERT
                       THEN analyze(w.all_news, w.price_data, at) ELSE None,
                       table, telegram, key, at)

\* run_scan.py:95-100: main makes its list; with no ticker it returns
MainStart ==
    /\ main_at = "start"
    /\ \E list \in {IF scan_config.SCAN_TICKER # "" THEN <<scan_config.SCAN_TICKER>>
                     ELSE scan_config.WATCHLIST} :
         /\ tickers' = list
         /\ main_at' = IF list = << >> THEN "returned" ELSE "loop"
    /\ UNCHANGED <<scan_config, scan_world, scan_runs, results, errors>>
    /\ UNCHANGED <<engine_vars, combine_vars, telegram_vars, alert_vars>>

\* run_scan.py:39-49: what the collectors give for the ticker: each ticker
\* has its own news
collected(w, ticker) ==
    IF ticker = Ticker THEN w ELSE [w EXCEPT !.all_news = w.other_news]

\* run_scan.py:106-109: what scan_single returns is appended to results,
\* unless it is empty
main_results(list, returned) ==
    IF "raised" \in DOMAIN returned \/ returned = EmptyDict
    THEN list ELSE Append(list, returned)

\* the exception is caught and not recorded
main_errors_swallowed(list, ticker, returned) == list

\* run_scan.py:110-114: what scan_single raises is caught and appended to
\* errors, with the ticker
main_errors(list, ticker, returned) ==
    IF "raised" \in DOMAIN returned
    THEN Append(list, [ticker |-> ticker, error |-> returned.raised])
    ELSE list

\* run_scan.py:105-114: one turn of the loop of main: scan_single of the
\* next ticker; what it returns goes to results unless it is empty, what
\* it raises goes to errors
ScanNext ==
    /\ main_at = "loop"
    /\ Len(scan_runs) < Len(tickers)
    /\ \E t \in {tickers[Len(scan_runs) + 1]} :
        \E w \in {collected(scan_world, t)} :
         \E psi \in calculate(EmptyDict, EmptyDict, w.all_news, w.price_data, now) :
           \E done \in {scan_single(t, scan_config, w, [psi EXCEPT !.ticker = t],
                                     alerts, telegram_config,
                                     summary_config.OPENAI_API_KEY, now)} :
              /\ scan_runs' = Append(scan_runs, done.run @@ [returned |-> done.returned])
              /\ results' = main_results(results, done.returned)
              /\ errors' = main_errors(errors, t, done.returned)
              /\ psi_scores' = IF done.stored = << >> THEN psi_scores
                               ELSE save_psi_score(psi_scores, done.stored[1])
              /\ alerts' = done.alerts
              /\ alert_calls' = alert_calls \o done.alert_calls
              /\ telegram_calls' = telegram_calls \o done.telegram
              /\ now' = done.now + scan_world.took
    /\ UNCHANGED <<scan_config, scan_world, tickers, main_at>>
    /\ UNCHANGED <<engine, score_weights, psi_levels, options_data, social_data, news_data,
                   price_data, candidates, psi_arg, psi_result, details, flash_result,
                   level_result>>
    /\ UNCHANGED <<combine_vars, telegram_config, summary_config, alert_args>>

\* run_scan.py:116-138: after the loop main sends the errors, if there are
\* any, and the daily summary in the run after the close, and returns
MainEnd ==
    /\ main_at = "loop"
    /\ Len(scan_runs) = Len(tickers)
    /\ \E report \in {send_telegram(telegram_config, errors, "Markdown",
                                      scan_world.telegram_replies)},
          summary \in {send_telegram(telegram_config, results, "Markdown",
                                       scan_world.telegram_replies)} :
         telegram_calls' = telegram_calls
            \o (IF errors # << >>
                THEN <<[text |-> errors, parse_mode |-> "Markdown",
                        requests |-> report.requests, returned |-> report.returned]>>
                ELSE << >>)
            \o (IF scan_world.after_close
                THEN <<[text |-> results, parse_mode |-> "Markdown",
                        requests |-> summary.requests, returned |-> summary.returned]>>
                ELSE << >>)
    /\ main_at' = "returned"
    /\ UNCHANGED <<scan_config, scan_world, tickers, scan_runs, results, errors>>
    /\ UNCHANGED <<engine_vars, combine_vars, telegram_config, alert_vars>>

\* before any call: the arguments are chosen, nothing is returned or stored
\* nothing is asked of the parts outside the two engines
IdleCombine ==
    /\ combine_args = << >>
    /\ combine_totals = << >>

\* telegram.py:10-11: the environment names no bot, nothing was sent
IdleTelegram ==
    /\ telegram_config = [TOKEN |-> "", CHAT_ID |-> ""]
    /\ telegram_calls = << >>

\* ai_summarizer.py:11: the environment names no key; the table of alerts
\* is empty and send_alert is not called
IdleAlerts ==
    /\ summary_config = [OPENAI_API_KEY |-> ""]
    /\ alerts = << >>
    /\ alert_args = {}
    /\ alert_calls = << >>

\* run_scan.py:20-21, settings.py:31-53: the environment names no ticker
\* and forces nothing, main is not running
SETTINGS_WATCHLIST == <<Ticker>>

IdleScan ==
    /\ scan_config = [SCAN_TICKER |-> "", FORCE_ALERT |-> FALSE, WATCHLIST |-> SETTINGS_WATCHLIST]
    /\ scan_world = None
    /\ tickers = << >>
    /\ scan_runs = << >>
    /\ results = << >>
    /\ errors = << >>
    /\ main_at = "idle"

IdleOuter ==
    /\ IdleCombine
    /\ IdleTelegram
    /\ IdleAlerts
    /\ IdleScan

InitEngine(t, w, l, o, s, n, p, c, x) ==
    /\ IdleOuter
    /\ engine = t
    /\ score_weights = w
    /\ psi_levels = l
    /\ options_data = o
    /\ social_data = s
    /\ news_data = n
    /\ price_data = p
    /\ candidates = c
    /\ psi_arg = x
    /\ now = UtcNow
    /\ psi_result = None
    /\ details = EmptyDict
    /\ psi_scores = << >>
    /\ flash_result = None
    /\ level_result = None

\* the engine is constructed, under the configuration of settings.py
InitArguments(o, s, n, p, c, x) ==
    InitEngine([ticker |-> Ticker], SCORE_WEIGHTS, PSI_LEVELS, o, s, n, p, c, x)

InitWith(o, s, n, p) == InitArguments(o, s, n, p, << >>, 0)

InitOptions == \E o \in OptionsBundles \cup {None} : InitWith(o, EmptyDict, << >>, None)

InitPrice == \E p \in PriceSnapshots \cup {None} : InitWith(EmptyDict, EmptyDict, << >>, p)

InitAttention ==
    \E s \in SocialBundles \cup {None}, n \in AttentionNews : InitWith(None, s, n, None)

InitFact == \E n \in FactNews : InitWith(None, None, n, None)

InitCalculate ==
    \E o \in ScoreOptions, s \in ScoreSocial, n \in ScoreNews, p \in ScorePrices :
        InitWith(o, s, n, p)

\* the longest news list given to analyze
MaxFlashNews == 5

\* the lists of distinct items of the Flash Reason engine, in every order
FlashNews ==
    {n \in SeqsUpTo(FlashItems, MaxFlashNews) : \A i, j \in DOMAIN n : n[i] = n[j] => i = j}

\* price snapshots on both sides of the two direction thresholds, one
\* without change_pct, and none
FlashPrices ==
    {None, [volume_ratio |-> 300]} \cup {[change_pct |-> c] : c \in {-300, -200, -199, 199, 200}}

InitFlash == \E n \in FlashNews, p \in FlashPrices : InitWith(None, None, n, p)

\* candidates as analyze makes them, of every source type and sentiment
CandidateItems ==
    {candidate(with_relevance(<<a>>, UtcNow)[1], 1) : a \in FlashItems}
    \cup {K_REGULATORY, K_UNCLEAR}

\* the most news _classify_event is told of
MaxAllNews == 5

InitClassify ==
    \E c \in SeqsUpTo(CandidateItems, TopN), k \in 0..MaxAllNews, p \in FlashPrices :
        InitArguments(None, None, Repeat(F_PLAIN, k), p, c, 0)

Init ==
    \E n \in SeqsUpTo({N_FILING, N_BEAT, N_LAWSUIT, F_BARE}, 2),
       p \in {None, [change_pct |-> -300], [change_pct |-> 500, volume_ratio |-> 300]},
       o \in {EmptyDict, [otm_call_volume_ratio |-> 600, short_expiry_pct |-> 60]},
       t \in {None, [ticker |-> Ticker]} :
        InitEngine(t, SCORE_WEIGHTS, PSI_LEVELS, o, EmptyDict, n, p, << >>, 0)

\* the scores of 0.0 to 10.0 in steps of 0.1
PsiValues == {x \in 0..PSI_LEVELS[Len(PSI_LEVELS)].high : x % 10 = 0}

InitLevel == \E x \in PsiValues : InitArguments(None, None, << >>, None, << >>, x)

\* the longest news list with items that lack a title or a timestamp
MaxMalformedNews == 4

MalformedNews ==
    {n \in SeqsUpTo(MalformedItems, MaxMalformedNews) :
        \A i, j \in DOMAIN n : n[i] = n[j] => i = j}

InitMalformed ==
    \E n \in MalformedNews, p \in {None, [change_pct |-> -300]} : InitWith(None, None, n, p)

\* the longest news list given to _score_and_rank_news
MaxRankNews == 3

InitRank == \E n \in SeqsUpTo(RankItems, MaxRankNews) : InitWith(None, None, n, None)

\* the longest news list the article given to _classify_event_type is of
MaxTypeNews == 2

InitType == \E n \in SeqsUpTo(TypeItems, MaxTypeNews) : InitWith(None, None, n, None)

\* the calls of calculate made on one engine
MaxCalls == 2

\* the arguments of a later call
RepeatOptions == {None, [otm_call_volume_ratio |-> 600, short_expiry_pct |-> 60]}

RepeatNews == {<< >>, <<F_8K>>, <<F_8K, F_REGULATORY>>}

RepeatPrices == {None, [change_pct |-> 500, volume_ratio |-> 300]}

\* the time between two calls: none, or a quarter of an hour
RepeatDelays == {0, 900}

\* the caller takes the result and calls calculate again on the same
\* engine, with other arguments, at the same time or later
CallAgain ==
    /\ psi_result # None
    /\ Len(psi_scores) < MaxCalls
    /\ psi_result' = None
    /\ options_data' \in RepeatOptions
    /\ news_data' \in RepeatNews
    /\ price_data' \in RepeatPrices
    /\ now' \in {now + d : d \in RepeatDelays}
    /\ UNCHANGED <<engine, score_weights, psi_levels, social_data, candidates, psi_arg,
                   details, psi_scores, flash_result, level_result>>
    /\ UNCHANGED outer_vars

InitRepeat ==
    \E o \in RepeatOptions, n \in RepeatNews, p \in RepeatPrices : InitWith(o, None, n, p)

\* the engines at rest: an engine constructed and no call made
IdleEngines ==
    /\ engine = [ticker |-> Ticker]
    /\ score_weights = SCORE_WEIGHTS
    /\ psi_levels = PSI_LEVELS
    /\ options_data = None
    /\ social_data = None
    /\ news_data = << >>
    /\ price_data = None
    /\ candidates = << >>
    /\ psi_arg = 0
    /\ now = UtcNow
    /\ psi_result = None
    /\ details = EmptyDict
    /\ psi_scores = << >>
    /\ flash_result = None
    /\ level_result = None

\* the boosts _calc_price_boost gives: none, the volume alone, the change
\* tiers without and with the volume, up to the cap
PriceBoosts == {0, 50, 100, 150, 200, 250, 300, 350, 400, 450}

\* the component whose score is raised by one point
Components == {"options", "attention", "fact"}

\* three scores and a boost, and the same with one of the scores raised by one
InitCombine ==
    /\ IdleEngines
    /\ IdleTelegram
    /\ IdleAlerts
    /\ IdleScan
    /\ \E o \in 0..10, a \in 0..10, f \in 0..10, b \in PriceBoosts, c \in Components :
         \E base \in {[options |-> o, attention |-> a, fact |-> f, price_boost |-> b]} :
           /\ base[c] < 10
           /\ combine_args = <<base, [base EXCEPT ![c] = @ + 1]>>
    /\ combine_totals = << >>

\* telegram.py:10-11: the token and the chat id are set or not
InitTelegram ==
    /\ IdleEngines
    /\ IdleCombine
    /\ IdleAlerts
    /\ IdleScan
    /\ telegram_config \in [TOKEN : {"", "123:abc"}, CHAT_ID : {"", "42"}]
    /\ telegram_calls = << >>

\* the verdicts of the rule-based classifier in the flash_result
RuleVerdicts ==
    {[type |-> "Catalyst", confidence |-> 85], [type |-> "Fracture", confidence |-> 80],
     [type |-> "Noise", confidence |-> 50]}

\* the records the service may write: a verdict of each type, one without
\* classification, one whose confidence is a word
AiRecords ==
    {[headline |-> "Earnings beat", detail |-> "EPS above estimates", classification |-> c,
      confidence |-> [number |-> 90], event_type |-> "earnings"] :
        c \in {"Catalyst", "Fracture", "Noise"}}
    \cup {[headline |-> "Earnings beat", detail |-> "EPS above estimates",
           confidence |-> [number |-> 90], event_type |-> "earnings"],
          [headline |-> "Earnings beat", detail |-> "EPS above estimates",
           classification |-> "Catalyst", confidence |-> [string |-> "high"],
           event_type |-> "earnings"]}

\* the contents of the message: a record alone, a record before a fence,
\* between fences with and without the line break, a sentence, a list, a
\* number
AiContents ==
    {[open |-> "", text |-> [json |-> [dict |-> d]], close |-> ""] : d \in AiRecords}
    \cup {[open |-> o, text |-> [json |-> [dict |-> d]], close |-> "fence"] :
            o \in {"", "fence", "fence_line"},
            d \in {r \in AiRecords : "classification" \in DOMAIN r /\ r.classification = "Fracture"}}
    \cup {[open |-> "", text |-> [not_json |-> "I cannot answer that."], close |-> ""],
          [open |-> "", text |-> [json |-> [list |-> << >>]], close |-> ""],
          [open |-> "", text |-> [json |-> [number |-> 1]], close |-> ""]}

\* the answers of the summarizer's service
SummarizerReplies ==
    {[raised |-> "Timeout"], [status_code |-> 429], [status_code |-> 500],
     [status_code |-> 200, json |-> [raised |-> "JSONDecodeError"]],
     [status_code |-> 200, json |-> [error |-> "overloaded"]],
     [status_code |-> 200, json |-> [choices |-> << >>]]}
    \cup {[status_code |-> 200, json |-> [choices |-> <<[message |-> [content |-> c]]>>]] :
            c \in AiContents}

\* an alert of the ticker recorded ten minutes before the run
RecentAlert ==
    [alert_id |-> <<Ticker, UtcNow - 600>>, ticker |-> Ticker, timestamp |-> UtcNow - 600,
     trigger_type |-> "psi_critical", psi_total |-> 750, classification |-> "Catalyst",
     confidence |-> 85, playbook_id |-> "Catalyst", sent_via |-> "both"]

\* the calls of send_alert of the scan: news or none, the answer of the
\* summarizer, the price, forced or not
AlertArguments ==
    {[ticker |-> Ticker, psi_result |-> [psi_total |-> 750],
      flash_result |-> [classification |-> rule, reason_candidates |-> << >>],
      trigger_type |-> "psi_critical", news_data |-> news, price_data |-> price,
      force |-> force, reply |-> reply,
      telegram_replies |-> <<[status_code |-> 200], [status_code |-> 200]>>,
      wait |-> 600, took |-> 2] :
        rule \in RuleVerdicts, news \in {<< >>, <<REFERENCE_NEWS[1]>>},
        price \in {None, [change_pct |-> 250]}, force \in BOOLEAN,
        reply \in SummarizerReplies}

\* send_alert called again and again with the same arguments, with or
\* without a key for the summarizer and a bot for Telegram, on a table
\* that is empty or holds a recent alert
InitAlert ==
    /\ IdleEngines
    /\ IdleCombine
    /\ IdleScan
    /\ telegram_config \in {[TOKEN |-> "", CHAT_ID |-> ""], [TOKEN |-> "123:abc", CHAT_ID |-> "42"]}
    /\ telegram_calls = << >>
    /\ summary_config \in {[OPENAI_API_KEY |-> k] : k \in {"", "sk-test"}}
    /\ alerts \in {<< >>, <<RecentAlert>>}
    /\ alert_args \in {{a} : a \in AlertArguments}
    /\ alert_calls = << >>

\* the calls of send_alert that the gate decides: no news, so no summary;
\* two tickers, a rule verdict that is Noise or not, forced or not, made
\* ten minutes, a second less than thirty minutes or thirty minutes after
\* the call before
CooldownArguments ==
    {[ticker |-> ticker, psi_result |-> [psi_total |-> 750],
      flash_result |-> [classification |-> rule, reason_candidates |-> << >>],
      trigger_type |-> "psi_critical", news_data |-> << >>, price_data |-> None,
      force |-> force, reply |-> [raised |-> "Timeout"],
      telegram_replies |-> <<[status_code |-> 200], [status_code |-> 200]>>,
      wait |-> wait, took |-> 1] :
        ticker \in {Ticker, "NVDA"},
        rule \in {v \in RuleVerdicts : v.type \in {"Catalyst", "Noise"}},
        force \in BOOLEAN, wait \in {600, 1799, 1800}}

\* three Noise alerts of the ticker earlier in the day
NoiseAlerts ==
    [i \in 1..NOISE_ALERTS_MAX_PER_DAY |->
        [alert_id |-> <<Ticker, UtcNow - 3600 * i>>, ticker |-> Ticker,
         timestamp |-> UtcNow - 3600 * i, trigger_type |-> "price_surge", psi_total |-> 300,
         classification |-> "Noise", confidence |-> 50, playbook_id |-> "Noise",
         sent_via |-> "both"]]

\* send_alert called a few times in a row, on a table that is empty or
\* holds the day's Noise alerts
InitCooldown ==
    /\ IdleEngines
    /\ IdleCombine
    /\ IdleScan
    /\ telegram_config = [TOKEN |-> "123:abc", CHAT_ID |-> "42"]
    /\ telegram_calls = << >>
    /\ summary_config = [OPENAI_API_KEY |-> ""]
    /\ alerts \in {<< >>, NoiseAlerts}
    /\ alert_args = CooldownArguments
    /\ alert_calls = << >>

\* the watchlists: the one of settings.py, one with a second ticker, none
Watchlists == {SETTINGS_WATCHLIST, <<Ticker, "NVDA">>, << >>}

\* what a run meets: the price (none, +2.5%, +5% on three times the
\* volume), the news of the ticker (none, the five of the built-in test,
\* one without title) and of any other ticker, the change and the average volume of the price table, the answer
\* of the summarizer (none, a verdict, a verdict whose confidence is a word)
ScanWorlds ==
    [price_data : {None, [change_pct |-> 250, volume_ratio |-> 100],
                   [change_pct |-> 500, volume_ratio |-> 300]},
     all_news : {<< >>, REFERENCE_NEWS, <<N_NO_TITLE>>},
     other_news : {<< >>, <<N_NO_TITLE>>},
     price_change : {None, [change_pct |-> 250, latest_volume |-> 100],
                     [change_pct |-> 50, latest_volume |-> 100]},
     avg_volume : {0, 100, 30},
     reply : {[raised |-> "Timeout"]}
             \cup {[status_code |-> 200, json |-> [choices |-> <<[message |-> [content |->
                     [open |-> "", text |-> [json |-> [dict |-> d]], close |-> ""]]]>>]] :
                        d \in {r \in AiRecords : "classification" \in DOMAIN r
                                                  /\ r.classification = "Catalyst"}},
     telegram_replies : {<<[status_code |-> 200], [status_code |-> 200]>>},
     took : {2},
     after_close : BOOLEAN]

\* main is called: with or without SCAN_TICKER (a ticker of the watchlist or
\* another) and FORCE_ALERT, on an empty alerts table
InitScan ==
    /\ IdleEngines
    /\ IdleCombine
    /\ telegram_config = [TOKEN |-> "123:abc", CHAT_ID |-> "42"]
    /\ telegram_calls = << >>
    /\ summary_config = [OPENAI_API_KEY |-> "sk-test"]
    /\ alerts = << >>
    /\ alert_args = {}
    /\ alert_calls = << >>
    /\ scan_config \in [SCAN_TICKER : {"", Ticker, "TSLA"}, FORCE_ALERT : BOOLEAN,
                         WATCHLIST : Watchlists]
    /\ scan_world \in ScanWorlds
    /\ tickers = << >>
    /\ scan_runs = << >>
    /\ results = << >>
    /\ errors = << >>
    /\ main_at = "start"

\* the instants the built-in test is run at: every half hour from before
\* the oldest of its news to a day after the latest
ReferenceStart == fromisoformat("2026-02-11T20:00:00").value

ReferenceHalfHours == 130

ReferenceInstants == {ReferenceStart + 1800 * k : k \in 0..ReferenceHalfHours}

\* the test's call has no price; the scan gives one: a rise of 2%, of 5%
\* with the volume
ReferencePrices == {None, [change_pct |-> 200], [change_pct |-> 500, volume_ratio |-> 300]}

InitReference ==
    /\ IdleOuter
    /\ engine = [ticker |-> Ticker]
    /\ score_weights = SCORE_WEIGHTS
    /\ psi_levels = PSI_LEVELS
    /\ options_data = REFERENCE_OPTIONS
    /\ social_data = REFERENCE_SOCIAL
    /\ news_data = REFERENCE_NEWS
    /\ price_data \in ReferencePrices
    /\ candidates = << >>
    /\ psi_arg = 0
    /\ now \in ReferenceInstants
    /\ psi_result = None
    /\ details = EmptyDict
    /\ psi_scores = << >>
    /\ flash_result = None
    /\ level_result = None

\* weight tables in place of the one of settings.py: a sum above 1, a sum
\* below 1, and no weight at all
WeightTables ==
    { SCORE_WEIGHTS,
      [options |-> 50, attention |-> 30, fact |-> 35],
      [options |-> 35, attention |-> 30, fact |-> 30],
      [options |-> 0, attention |-> 0, fact |-> 0] }

\* band tables in place of the one of settings.py: one whose watch band
\* starts above the end of the normal band, and one without the alert band
BandTables ==
    { PSI_LEVELS,
      [PSI_LEVELS EXCEPT ![2].low = 350],
      SelectSeq(PSI_LEVELS, LAMBDA b : b.level # "alert") }

\* the process starts with some configuration; no engine is constructed yet
InitConfig ==
    \E w \in WeightTables, l \in BandTables, o \in ScoreOptions, n \in ScoreNews :
        InitEngine(None, w, l, o, None, n, None, << >>, 0)

Next ==
    \/ Construct
    \/ Calculate
    \/ CombineScores
    \/ SendTelegram
    \/ SendAlert
    \/ MainStart
    \/ ScanNext
    \/ MainEnd
    \/ CallAgain
    \/ Analyze
    \/ ScoreAndRankNews
    \/ ClassifyEventType
    \/ ClassifyEvent
    \/ GetPlaybook
    \/ GetLevel

\* calculate, analyze and _classify_event in any order
Spec == Init /\ [][Next]_vars

\* the engine constructed and used under any configuration
SpecConfig == InitConfig /\ [][Construct \/ Calculate]_vars

\* the combination of calculate on scores that differ by one point
SpecCombine == InitCombine /\ [][CombineScores]_vars

\* a run of main
SpecScan == InitScan /\ [][MainStart \/ ScanNext \/ MainEnd]_vars

\* send_alert called several times in a row
SpecCooldown == InitCooldown /\ [][SendAlert]_vars

\* send_alert called by the scan
SpecAlert == InitAlert /\ [][SendAlert]_vars

\* send_telegram called by its callers
SpecTelegram == InitTelegram /\ [][SendTelegram]_vars

\* the built-in test: calculate and analyze on its data
SpecReference == InitReference /\ [][Calculate \/ Analyze]_vars

\* calculate called again and again on one engine
SpecRepeat == InitRepeat /\ [][Calculate \/ CallAgain]_vars

\* calculate on inputs that give every combination of the three scores
SpecCalculate == InitCalculate /\ [][Calculate]_vars

\* analyze on the lists of the Flash Reason engine's items
SpecFlash == InitFlash /\ [][Analyze]_vars

\* _classify_event on lists of candidates
SpecClassify == InitClassify /\ [][ClassifyEvent]_vars

\* _get_level on every score
SpecLevel == InitLevel /\ [][GetLevel]_vars

\* calculate on every social bundle and the news lists of the attention scorer
SpecAttention == InitAttention /\ [][Calculate]_vars

\* calculate on the news lists of the fact scorer
SpecFact == InitFact /\ [][Calculate]_vars

\* calculate on every options bundle
SpecOptions == InitOptions /\ [][Calculate]_vars

\* calculate on every price snapshot
SpecPrice == InitPrice /\ [][Calculate]_vars

\* _classify_event_type on titles of every category
SpecType == InitType /\ [][ClassifyEventType]_vars

\* analyze on lists with items that lack a title or a timestamp
SpecMalformed == InitMalformed /\ [][Analyze]_vars

\* _get_playbook on classifications of every type
SpecPlaybook == InitWith(None, None, << >>, None) /\ [][GetPlaybook]_vars

\* _score_and_rank_news on the lists of the ranking's items
SpecRank == InitRank /\ [][ScoreAndRankNews]_vars

-----------------------------------------------------------------------------
(* The claims *)

\* the price boost of the call that returned psi_result
ReturnedBoost == psi_result.details.formula.price_boost

\* C1: the psi_total calculate returns is the weighted sum of the three
\* scores it returns (weights 0.35, 0.30, 0.35) plus the confluence bonus,
\* plus the price boost, minus the noise penalty of the same call, rounded to
\* a nearest multiple of 0.1 and clamped to [0, 10].
C1_PsiTotal ==
    psi_result # None =>
        LET total == 35 * psi_result.options_score + 30 * psi_result.attention_score
                     + 35 * psi_result.fact_score + psi_result.confluence_bonus
                     + ReturnedBoost - psi_result.noise_penalty
        IN  \E tenth \in -10..200 :
                /\ Abs(10 * tenth - total) <= 5
                /\ psi_result.psi_total = Max(0, Min(1000, 10 * tenth))

\* calculate returned with a bonus, a boost and a penalty, below the clamp
C1_Witness ==
    /\ psi_result # None
    /\ psi_result.confluence_bonus > 0
    /\ ReturnedBoost > 0
    /\ psi_result.noise_penalty > 0
    /\ psi_result.psi_total \in 1..999

\* C2: the options, attention and fact scores calculate returns lie in
\* [0, 10], psi_total lies in [0, 10] and the price boost in [0, 4.5].
C2_Ranges ==
    psi_result # None =>
        /\ psi_result.options_score \in 0..10
        /\ psi_result.attention_score \in 0..10
        /\ psi_result.fact_score \in 0..10
        /\ psi_result.psi_total \in 0..1000
        /\ ReturnedBoost \in 0..450

\* calculate returned on an options bundle whose points exceed 10, with the
\* highest price boost and a sum above 10
C2_Witness ==
    /\ psi_result # None
    /\ SumPoints(psi_result.details.options.factors) > 10
    /\ psi_result.options_score = 10
    /\ ReturnedBoost = 450
    /\ 35 * psi_result.options_score + 30 * psi_result.attention_score
       + 35 * psi_result.fact_score + psi_result.confluence_bonus + ReturnedBoost
       - psi_result.noise_penalty > 1000
    /\ psi_result.psi_total = 1000

\* C3: _get_level maps every score of 0.0 to 10.0 (in steps of 0.1) to the
\* one level of the bands [0,3) normal, [3,5) watch, [5,7) alert, [7,10]
\* critical; 2.9, 3.0, 4.9, 5.0, 6.9, 7.0 and 10.0 give normal, watch, watch,
\* alert, alert, critical and critical.
C3_LevelBands ==
    level_result # None =>
        /\ level_result.returned =
              (IF psi_arg < 300 THEN "normal"
               ELSE IF psi_arg < 500 THEN "watch"
               ELSE IF psi_arg < 700 THEN "alert"
               ELSE "critical")
        /\ psi_arg = 290 => level_result.returned = "normal"
        /\ psi_arg = 300 => level_result.returned = "watch"
        /\ psi_arg = 490 => level_result.returned = "watch"
        /\ psi_arg = 500 => level_result.returned = "alert"
        /\ psi_arg = 690 => level_result.returned = "alert"
        /\ psi_arg = 700 => level_result.returned = "critical"
        /\ psi_arg = 1000 => level_result.returned = "critical"

\* _get_level returned for 10.0, the score no band of the table holds
C3_Witness == level_result # None /\ psi_arg = 1000 /\ level_result.returned = "critical"

\* the rules of the cascade in their order: when each applies, and the type
\* and the confidence it gives
CascadeRules(cands, all_news, price) ==
    LET facts == fact_sources(cands)
        direction == price_direction(price)
        positive_found == keyword_found(cands, "positive")
        negative_found == keyword_found(cands, "negative")
        positive_count == sentiment_count(cands, "positive")
        negative_count == sentiment_count(cands, "negative")
        news == Len(all_news)
    IN  << [when |-> cands = << >>, type |-> "Unknown", confidence |-> 0],
           [when |-> beat_guide_down(cands, price), type |-> "Fracture", confidence |-> 90],
           [when |-> direction = -1 /\ (facts >= 1 \/ news >= 3), type |-> "Fracture",
            confidence |-> IF facts >= 1 THEN 85 ELSE 70],
           [when |-> direction = 1 /\ (facts >= 1 \/ positive_found), type |-> "Catalyst",
            confidence |-> IF facts >= 1 THEN 85 ELSE 70],
           [when |-> facts >= 1 /\ negative_found /\ ~positive_found, type |-> "Fracture",
            confidence |-> 80],
           [when |-> facts >= 1 /\ positive_found, type |-> "Catalyst", confidence |-> 85],
           [when |-> positive_count > negative_count /\ news >= 5, type |-> "Catalyst",
            confidence |-> 70],
           [when |-> negative_count > positive_count, type |-> "Fracture", confidence |-> 65],
           [when |-> TRUE, type |-> "Noise", confidence |-> 50] >>

\* C4: _classify_event returns the type and the confidence of the first rule
\* of the nine-rule cascade that applies to what it derives from its
\* arguments.
C4_Cascade ==
    flash_result # None =>
        LET rules == CascadeRules(candidates, news_data, price_data)
            first == CHOOSE i \in DOMAIN rules :
                        rules[i].when /\ \A j \in 1..(i - 1) : ~rules[j].when
        IN  /\ flash_result.classification.type = rules[first].type
            /\ flash_result.classification.confidence = rules[first].confidence

\* _classify_event returned Fracture 0.9 where the pattern (rule 2) and the
\* strong fall with a fact source (rule 3) both apply
C4_Witness ==
    /\ flash_result # None
    /\ CascadeRules(candidates, news_data, price_data)[2].when
    /\ CascadeRules(candidates, news_data, price_data)[3].when
    /\ fact_sources(candidates) >= 1
    /\ flash_result.classification = [type |-> "Fracture", confidence |-> 90]

\* the title or the summary holds a beat keyword
HoldsBeat(item) ==
    \/ HasTerm("beat", Lower(Get(item, "title", "")))
    \/ HasTerm("beat", Lower(Get(item, "summary", "")))

\* analyze returned a result, on a price change of -2% or lower
ReturnedOnFall ==
    /\ flash_result # None
    /\ "classification" \in DOMAIN flash_result
    /\ Truthy(price_data)
    /\ Get(price_data, "change_pct", 0) <= -200

\* C5 as claimed: whenever an item of the news list given to analyze holds a
\* beat keyword and the price change is -2% or lower, the classification is
\* Fracture with confidence 0.9.
C5_BeatInAnyItem ==
    (ReturnedOnFall /\ \E i \in DOMAIN news_data : HoldsBeat(news_data[i]))
        => flash_result.classification = [type |-> "Fracture", confidence |-> 90]

\* C5 as amended: whenever one of the reason candidates analyze returns (the
\* three items of highest relevance, their summaries cut to 200 characters)
\* holds a beat keyword and the price change is -2% or lower, the
\* classification is Fracture with confidence 0.9.
C5_BeatInCandidate ==
    (ReturnedOnFall
     /\ \E i \in DOMAIN flash_result.reason_candidates :
            HoldsBeat(flash_result.reason_candidates[i]))
        => flash_result.classification = [type |-> "Fracture", confidence |-> 90]

\* analyze returned Fracture 0.9 on a fall with five news items, a filing and
\* a beat item among the candidates, and more positive than negative ones
C5_Witness ==
    /\ ReturnedOnFall
    /\ Len(news_data) = 5
    /\ \E i \in DOMAIN flash_result.reason_candidates :
            HoldsBeat(flash_result.reason_candidates[i])
    /\ fact_sources(flash_result.reason_candidates) >= 1
    /\ sentiment_count(flash_result.reason_candidates, "positive")
            > sentiment_count(flash_result.reason_candidates, "negative")
    /\ ~HasTerm("guide_down", all_text(flash_result.reason_candidates))
    /\ flash_result.classification = [type |-> "Fracture", confidence |-> 90]

\* the title or the summary of the article holds a breaking keyword
HoldsBreaking(article) ==
    \/ HasTerm("breaking", Lower(Get(article, "title", "")))
    \/ HasTerm("breaking", Lower(Get(article, "summary", "")))

\* C7: the attention score is min(10, A + B + G + M + N): A is 5 for a
\* mention acceleration of 300% or more, else 3 for 100% or more (previous
\* and current mentions both above 0); B is 2 if the title or the summary of
\* a news item holds a breaking keyword or the social bundle's flag is set;
\* G is 2 for a trends ratio of 2 or more; M is 1 for 2 or more active
\* platforms; N is 1 for 10 or more news items.
C7_AttentionScore ==
    psi_result # None =>
        LET social == OrEmptyDict(social_data)
            current == Get(social, "current_mentions", 0)
            previous == Get(social, "previous_mentions", 0)
            A == IF previous > 0 /\ current > 0
                 THEN IF (current - previous) * 100 >= 300 * previous THEN 5
                      ELSE IF (current - previous) * 100 >= 100 * previous THEN 3
                      ELSE 0
                 ELSE 0
            B == IF \/ \E i \in DOMAIN news_data : HoldsBreaking(news_data[i])
                    \/ Get(social, "breaking_keyword_found", FALSE)
                 THEN 2 ELSE 0
            G == IF Get(social, "google_trends_ratio", 0) >= 200 THEN 2 ELSE 0
            M == IF Len(Get(social, "platforms_active", << >>)) >= 2 THEN 1 ELSE 0
            N == IF Len(news_data) >= 10 THEN 1 ELSE 0
        IN  psi_result.attention_score = Min(10, A + B + G + M + N)

\* C6: the options score is min(10, T + S + O + I + L + P): T is 5 for an
\* OTM call volume ratio of 5 or more, else 3 for 3 or more, else 0; S is 2
\* for a short expiry share of 0.6 or more; O is 2 for |OI change| of 50 or
\* more; I is 1 for |IV skew| of 2 sigma or more; L is 1 for a large trade;
\* P is 1 for a put/call ratio below 0.5 or above 2.0.  An absent field
\* counts as 0 (1.0 for the put/call ratio); the empty bundle scores 0.
C6_OptionsScore ==
    psi_result # None =>
        LET data == OrEmptyDict(options_data)
            otm == Get(data, "otm_call_volume_ratio", 0)
            pc == Get(data, "pc_ratio", 100)
            T == IF otm >= 500 THEN 5 ELSE IF otm >= 300 THEN 3 ELSE 0
            S == IF Get(data, "short_expiry_pct", 0) >= 60 THEN 2 ELSE 0
            O == IF Abs(Get(data, "oi_change_pct", 0)) >= 50 THEN 2 ELSE 0
            I == IF Abs(Get(data, "iv_skew_sigma", 0)) >= 200 THEN 1 ELSE 0
            L == IF Get(data, "large_trade_count", 0) > 0 THEN 1 ELSE 0
            P == IF pc < 50 \/ pc > 200 THEN 1 ELSE 0
        IN  /\ psi_result.options_score = Min(10, T + S + O + I + L + P)
            /\ data = EmptyDict => psi_result.options_score = 0

\* calculate returned on a bundle that holds an OTM ratio of 6 and nothing
\* else, with an options score of 5
C6_Witness ==
    /\ psi_result # None
    /\ options_data = [otm_call_volume_ratio |-> 600]
    /\ psi_result.options_score = 5

\* the article is a filing whose title names the form 8-K
Is8KFiling(article) ==
    /\ \/ Get(article, "source_type", "") = "filing"
       \/ HasTerm("sec", Lower(Get(article, "source", "")))
    /\ HasTerm("form_8k", Lower(Get(article, "title", "")))

\* the article is a filing of another form
IsOtherFiling(article) ==
    /\ \/ Get(article, "source_type", "") = "filing"
       \/ HasTerm("sec", Lower(Get(article, "source", "")))
    /\ ~HasTerm("form_8k", Lower(Get(article, "title", "")))

\* C8: the fact score is min(10, F + R + E + S): F is 4 if an item is an 8-K
\* filing, else 2 if there is another filing; R is 3 if a title has a
\* regulatory term; E is 2 if a title has an earnings term; S is 1 if there
\* are 3 or more distinct sources.  Each counts once.
C8_FactScore ==
    psi_result # None =>
        LET items == {news_data[i] : i \in DOMAIN news_data}
            F == IF \E a \in items : Is8KFiling(a) THEN 4
                 ELSE IF \E a \in items : IsOtherFiling(a) THEN 2
                 ELSE 0
            R == IF \E a \in items : HasTerm("regulatory", Lower(Get(a, "title", "")))
                 THEN 3 ELSE 0
            E == IF \E a \in items : HasTerm("earnings", Lower(Get(a, "title", "")))
                 THEN 2 ELSE 0
            S == IF Cardinality({Get(a, "source", "") : a \in items}) >= 3 THEN 1 ELSE 0
        IN  psi_result.fact_score = Min(10, F + R + E + S)

\* calculate returned on a list of three filings, two of them 8-K, with a
\* fact score of 4
C8_Witness ==
    /\ psi_result # None
    /\ Len(news_data) = 3
    /\ Cardinality({i \in DOMAIN news_data : Is8KFiling(news_data[i])}) = 2
    /\ \E i \in DOMAIN news_data : IsOtherFiling(news_data[i])
    /\ psi_result.fact_score = 4

\* C9: the price boost is min(4.5, tier + vol): tier is 4.0 for |change| of
\* 10% or more, else 3.0 for 8%, else 2.0 for 5%, else 1.0 for 2%, else 0;
\* vol is 0.5 for a volume ratio of 3 or more.  No snapshot, or an empty
\* one, gives 0.
C9_PriceBoost ==
    psi_result # None =>
        LET price == OrEmptyDict(price_data)
            change == Abs(Get(price, "change_pct", 0))
            tier == IF change >= 1000 THEN 400
                    ELSE IF change >= 800 THEN 300
                    ELSE IF change >= 500 THEN 200
                    ELSE IF change >= 200 THEN 100
                    ELSE 0
            vol == IF Get(price, "volume_ratio", 100) >= 300 THEN 50 ELSE 0
        IN  /\ ReturnedBoost = Min(450, tier + vol)
            /\ price = EmptyDict => ReturnedBoost = 0

\* calculate returned on a fall of 10% or more on a volume ratio of 3 or
\* more, with a boost of 4.5
C9_Witness ==
    /\ psi_result # None
    /\ Truthy(price_data)
    /\ Get(price_data, "change_pct", 0) <= -1000
    /\ Get(price_data, "volume_ratio", 100) >= 300
    /\ ReturnedBoost = 450

\* C10: the confluence bonus of a calculate call is CONFLUENCE_BONUS (1.0)
\* when at least two of the three scores it returns are 5 or more, and 0
\* otherwise.
C10_Confluence ==
    psi_result # None =>
        LET o == psi_result.options_score >= 5
            a == psi_result.attention_score >= 5
            f == psi_result.fact_score >= 5
        IN  psi_result.confluence_bonus =
                (IF (o /\ a) \/ (o /\ f) \/ (a /\ f) THEN CONFLUENCE_BONUS ELSE 0)

\* calculate returned options 6, attention 6, fact 1 with the bonus
C10_Witness ==
    /\ psi_result # None
    /\ psi_result.options_score = 6
    /\ psi_result.attention_score = 6
    /\ psi_result.fact_score = 1
    /\ psi_result.confluence_bonus = CONFLUENCE_BONUS

\* C11: for all attention and fact scores in 0..10 the noise penalty of a
\* calculate call is min(NOISE_PENALTY_MAX, (attention - fact) * 0.3) when
\* the attention score is 5 or more and the fact score 2 or less, and 0
\* otherwise; it lies in [0, NOISE_PENALTY_MAX]; attention 8 and fact 0 give
\* min(2.0, 2.4), attention 4 and fact 0 give 0.
C11_NoisePenalty ==
    psi_result # None =>
        LET a == psi_result.attention_score
            f == psi_result.fact_score
        IN  /\ psi_result.noise_penalty =
                  (IF a >= 5 /\ f <= 2 THEN Min(NOISE_PENALTY_MAX, (a - f) * 30) ELSE 0)
            /\ psi_result.noise_penalty \in 0..NOISE_PENALTY_MAX
            /\ (a = 8 /\ f = 0) => psi_result.noise_penalty = Min(200, 240)
            /\ (a = 4 /\ f = 0) => psi_result.noise_penalty = 0

\* calculate returned attention 8 and fact 0 with the penalty at its maximum
C11_Witness ==
    /\ psi_result # None
    /\ psi_result.attention_score = 8
    /\ psi_result.fact_score = 0
    /\ psi_result.noise_penalty = NOISE_PENALTY_MAX

\* the recency bonus of the claim: by the age of the article at the call; an
\* article whose timestamp gives no age has none
RecencyBonus(article) ==
    LET pub_time == PubTime(Get(article, "timestamp", ""))
    IN  IF "value" \notin DOMAIN pub_time THEN 0
        ELSE IF now - pub_time.value < 3600 THEN 30
        ELSE IF now - pub_time.value < 6 * 3600 THEN 20
        ELSE IF now - pub_time.value < 24 * 3600 THEN 10
        ELSE 0

\* the source weight of the claim
SourceBonus(article) ==
    IF Get(article, "source_type", "") = "filing" THEN 30
    ELSE IF Get(article, "source", "") \in {"finnhub", "sec_edgar"} THEN 20
    ELSE 0

\* C12: _score_and_rank_news gives every news item the relevance
\* min(1, 0.1 * |keywords_matched| + (0.3 for a filing, else 0.2 for a
\* source of the trusted feeds) + (0.2 if the title or the summary holds a
\* breaking keyword) + the recency bonus (0.3 for an age below 1 hour, 0.2
\* below 6 hours, 0.1 below 24 hours)), which lies in [0, 1].
C12_Relevance ==
    (flash_result # None /\ "ranked" \in DOMAIN flash_result) =>
        \A i \in DOMAIN news_data :
            /\ news_data[i].relevance_score =
                  Min(100, 10 * Len(Get(news_data[i], "keywords_matched", << >>))
                           + SourceBonus(news_data[i])
                           + (IF HoldsBreaking(news_data[i]) THEN 20 ELSE 0)
                           + RecencyBonus(news_data[i]))
            /\ news_data[i].relevance_score \in 0..100

\* C13: the list _score_and_rank_news returns is a permutation of the list
\* it was given, in the order of non-increasing relevance, and items of the
\* same relevance keep the order they had in the list given.
C13_StableRanking ==
    (flash_result # None /\ "ranked" \in DOMAIN flash_result) =>
        LET ranked == flash_result.ranked
            n == Len(news_data)
        IN  /\ Len(ranked) = n
            /\ \E from \in [1..n -> 1..n] :
                  /\ \A k, l \in 1..n : from[k] = from[l] => k = l
                  /\ \A k \in 1..n : ranked[k] = news_data[from[k]]
                  /\ \A k, l \in 1..n :
                        k < l => \/ ranked[k].relevance_score > ranked[l].relevance_score
                                 \/ /\ ranked[k].relevance_score = ranked[l].relevance_score
                                    /\ from[k] < from[l]

\* _score_and_rank_news returned a list of three that begins with two
\* different items of the same relevance, which came second and third in
\* the list given
C13_Witness ==
    /\ flash_result # None
    /\ "ranked" \in DOMAIN flash_result
    /\ Len(news_data) = 3
    /\ flash_result.ranked = <<news_data[2], news_data[3], news_data[1]>>
    /\ news_data[2] # news_data[3]
    /\ news_data[2].relevance_score = news_data[3].relevance_score
    /\ news_data[1].relevance_score < news_data[2].relevance_score

\* the order of the categories of the claim
CategoryOrder ==
    <<"earnings", "regulatory", "supply_chain", "analyst", "ma", "sector", "macro">>

\* a keyword of the category occurs in the title of the article
CategoryMatches(category, article) ==
    \E i \in DOMAIN TYPE_KEYWORDS :
        /\ TYPE_KEYWORDS[i].type = category
        /\ \E kw \in TYPE_KEYWORDS[i].keywords : In(kw, lower(Get(article, "title", "")))

\* C14: _classify_event_type returns the first category, in the order
\* earnings, regulatory, supply_chain, analyst, ma, sector, macro, that has a
\* keyword occurring in the title, and other when no category has one; a
\* title with keywords of two categories gets the earlier one.
C14_EventType ==
    (flash_result # None /\ "event_type" \in DOMAIN flash_result) =>
        LET matching == {k \in DOMAIN CategoryOrder :
                            CategoryMatches(CategoryOrder[k], flash_result.article)}
        IN  /\ matching = {} => flash_result.event_type = "other"
            /\ \A k \in matching :
                    (\A l \in matching : k <= l) => flash_result.event_type = CategoryOrder[k]
            /\ Get(flash_result.article, "title", "") = "Analyst upgrade after earnings"
                    => flash_result.event_type = "earnings"

\* _classify_event_type returned regulatory for a title that has keywords
\* of the categories regulatory, supply_chain and macro
C14_Witness ==
    /\ flash_result # None
    /\ "event_type" \in DOMAIN flash_result
    /\ CategoryMatches("regulatory", flash_result.article)
    /\ CategoryMatches("supply_chain", flash_result.article)
    /\ CategoryMatches("macro", flash_result.article)
    /\ flash_result.event_type = "regulatory"

\* C15: for a news list of n items analyze returns min(3, n) reason
\* candidates, made of the first min(3, n) items of the relevance ranking in
\* its order; the candidate at position i has rank i, its confidence is the
\* relevance_score of the item, and the confidence never increases with the
\* rank.
C15_Candidates ==
    flash_result # None =>
        /\ "reason_candidates" \in DOMAIN flash_result
        /\ LET cands == flash_result.reason_candidates
               ranked == sorted_by_relevance(news_data)
           IN  /\ Len(cands) = Min(3, Len(news_data))
               /\ \A i \in DOMAIN cands :
                     /\ cands[i].rank = i
                     /\ cands[i].title = Get(ranked[i], "title", "")
                     /\ cands[i].source_url = Get(ranked[i], "url", "")
                     /\ cands[i].confidence = ranked[i].relevance_score
               /\ \A i, j \in DOMAIN cands :
                     i < j => cands[i].confidence >= cands[j].confidence

\* the table of the claim
PlaybookOf(type) ==
    IF type = "Noise" THEN "PB-NOISE-01"
    ELSE IF type = "Fracture" THEN "PB-FRACTURE-01"
    ELSE IF type = "Catalyst" THEN "PB-CATALYST-01"
    ELSE "PB-UNKNOWN-01"

\* C16: the playbook _get_playbook returns depends on classification.type
\* alone: Noise, Fracture and Catalyst give PB-NOISE-01, PB-FRACTURE-01 and
\* PB-CATALYST-01, every other type (Unknown too) and a classification
\* without type give the fallback PB-UNKNOWN-01; the call changes no state.
C16_Playbook ==
    (flash_result # None /\ "playbook" \in DOMAIN flash_result
     /\ "reason_candidates" \notin DOMAIN flash_result) =>
        /\ flash_result.playbook.id =
              PlaybookOf(Get(flash_result.classification, "type", "Unknown"))
        /\ flash_result.playbook.reevaluation =
              (CASE flash_result.playbook.id = "PB-NOISE-01" -> "15min"
                 [] flash_result.playbook.id = "PB-UNKNOWN-01" -> "30min"
                 [] OTHER -> "close")
        /\ details = EmptyDict /\ psi_scores = << >> /\ news_data = << >>
        /\ psi_result = None /\ level_result = None

\* _get_playbook returned the fallback for a type that is none of the four
\* of _classify_event, given with a confidence of 0.9
C16_Witness ==
    /\ flash_result # None
    /\ "playbook" \in DOMAIN flash_result
    /\ flash_result.classification = [type |-> "Mixed", confidence |-> 90]
    /\ flash_result.playbook.id = "PB-UNKNOWN-01"

\* the item lacks a title or a timestamp
Malformed(item) == "title" \notin DOMAIN item \/ "timestamp" \notin DOMAIN item

\* the candidate is made of the item
CandidateOf(c, item) ==
    c.title = Get(item, "title", "") /\ c.source_url = Get(item, "url", "")

\* C18: when the news list given to analyze holds an item that lacks a
\* timestamp or a title, analyze returns a result without raising and the
\* item is not among the reason candidates.
C18_MalformedSkipped ==
    flash_result # None =>
        /\ "raised" \notin DOMAIN flash_result
        /\ \A i \in DOMAIN news_data :
              Malformed(news_data[i]) =>
                  \A k \in DOMAIN flash_result.reason_candidates :
                      ~CandidateOf(flash_result.reason_candidates[k], news_data[i])

\* C19: analyze leaves its input unchanged: after the call every news item
\* given has the fields and the values it had before, and the list its
\* order.
C19_InputUnchanged == [][news_data' = news_data]_vars

\* the weights sum to 1.0
WeightsSumToOne(w) == w.options + w.attention + w.fact = 100

\* the bands cover 0 to 10 without a gap: each starts where the one before ends
BandsWithoutGap(l) ==
    /\ Len(l) > 0
    /\ l[1].low = 0
    /\ l[Len(l)].high = 1000
    /\ \A i \in 1..(Len(l) - 1) : l[i + 1].low <= l[i].high

ValidConfiguration == WeightsSumToOne(score_weights) /\ BandsWithoutGap(psi_levels)

\* C17: constructing the engine with weights that do not sum to 1.0, or
\* with a band table that has a gap, fails: an engine exists only under a
\* valid configuration, and so calculate returns only under one.
C17_InvalidConfiguration ==
    /\ engine # None => ValidConfiguration
    /\ psi_result # None => ValidConfiguration

\* a step in which calculate returns
CalculateReturns == psi_result = None /\ psi_result' # None

\* C20 as stated: calculate is pure: a call leaves the psi_scores table and
\* the fields of the engine instance as they were.
C20_CalculatePure ==
    [][CalculateReturns => (psi_scores' = psi_scores /\ details' = details)]_vars

SameKey(r, row) == r.ticker = row.ticker /\ r.timestamp = row.timestamp

\* the table after the call: the result is its last row, no other row has
\* its ticker and timestamp, and the other rows are those of before, in order
StoredOnce(before, after, result) ==
    /\ after # << >>
    /\ after[Len(after)] = result
    /\ \A i \in 1..(Len(after) - 1) : ~SameKey(after[i], result)
    /\ SubSeq(after, 1, Len(after) - 1) = SelectSeq(before, LAMBDA r : ~SameKey(r, result))

\* the scores returned are those of the arguments of this call
ScoresOfArguments ==
    /\ C6_OptionsScore
    /\ C8_FactScore
    /\ C9_PriceBoost
    /\ C10_Confluence
    /\ C11_NoisePenalty
    /\ C1_PsiTotal
    /\ psi_result # None =>
          psi_result.attention_score =
              _calc_attention_score(OrEmptyDict(social_data), news_data).score

\* C20 as amended: a call of calculate stores its result as one row of
\* psi_scores, in place of a row of the same ticker and timestamp, sets the
\* details of the engine to the details of the result and changes nothing
\* else; the scores returned are those of the arguments of the call, on the
\* first call and on every later call on the same engine.
C20_CalculateEffects ==
    [][CalculateReturns =>
          /\ StoredOnce(psi_scores, psi_scores', psi_result')
          /\ details' = psi_result'.details
          /\ ScoresOfArguments'
          /\ UNCHANGED <<engine, score_weights, psi_levels, options_data, social_data,
                         news_data, price_data, now>>]_vars

\* a second call on the engine has returned, later than the first and with
\* another total: the table holds the rows of both
C20_Witness ==
    /\ psi_result # None
    /\ Len(psi_scores) = 2
    /\ psi_scores[2] = psi_result
    /\ psi_scores[1].timestamp < psi_result.timestamp
    /\ psi_scores[1].psi_total # psi_result.psi_total

\* the price snapshot holds a change of -2% or below
StrongFall(price) ==
    /\ price # None
    /\ "change_pct" \in DOMAIN price
    /\ price.change_pct <= -200

\* C26: for every candidate list and news list, when the price change is
\* -2% or below _classify_event never returns Catalyst: the result is
\* Fracture, Noise or Unknown.
C26_NoCatalystOnFall ==
    (flash_result # None /\ StrongFall(price_data)) =>
        flash_result.classification.type \in {"Fracture", "Noise", "Unknown"}

\* _classify_event returned Fracture at a change of exactly -2%, on
\* candidates with a fact source and a positive keyword and no beat pattern,
\* told of fewer than three news: without the fall they make a Catalyst
C26_Witness ==
    /\ flash_result # None
    /\ price_data = [change_pct |-> -200]
    /\ Len(news_data) < 3
    /\ fact_sources(candidates) >= 1
    /\ keyword_found(candidates, "positive")
    /\ ~beat_guide_down(candidates, price_data)
    /\ _classify_event(candidates, news_data, None).type = "Catalyst"
    /\ flash_result.classification = [type |-> "Fracture", confidence |-> 85]

\* both totals are computed
Combined == Len(combine_totals) = 2

\* the noise penalty of the scores the combination was given: 0.3 for each
\* point of attention above the fact score, at most 2.0, when the attention
\* is 5 or more and the fact score 2 or less
PenaltyOf(a) ==
    IF a.attention >= 5 /\ a.fact <= 2
    THEN Min(200, 30 * (a.attention - a.fact))
    ELSE 0

\* C27 as stated: with the other two scores and the price boost held fixed,
\* raising one of the three scores by one point never lowers psi_total.
C27_Monotone == Combined => combine_totals[2] >= combine_totals[1]

\* C27 as amended: raising one of the three scores by one point never
\* lowers psi_total unless the raise makes the noise penalty larger.
C27_MonotoneWithoutPenalty ==
    (Combined /\ PenaltyOf(combine_args[2]) <= PenaltyOf(combine_args[1])) =>
        combine_totals[2] >= combine_totals[1]

\* the attention score was raised from 7 to 8 under the capped penalty, and
\* the total rose
C27_Witness ==
    /\ Combined
    /\ combine_args[1].attention = 7
    /\ combine_args[2].attention = 8
    /\ combine_args[1].fact = 0
    /\ PenaltyOf(combine_args[1]) = 200
    /\ combine_totals[2] > combine_totals[1]

\* C25: for the data of the built-in test, evaluated at any instant,
\* calculate gives options_score 10, attention_score 8, fact_score 9 or
\* more and psi_total 7 or more with level critical; with a price change of
\* +2% or more analyze classifies it Catalyst with confidence 0.85 or more.
C25_ReferenceFixture ==
    /\ psi_result # None =>
          /\ psi_result.options_score = 10
          /\ psi_result.attention_score = 8
          /\ psi_result.fact_score >= 9
          /\ psi_result.psi_total >= 700
          /\ psi_result.level = "critical"
    /\ (flash_result # None /\ price_data # None /\ price_data.change_pct >= 200) =>
          /\ flash_result.classification.type = "Catalyst"
          /\ flash_result.classification.confidence >= 85

\* C30: send_telegram makes at most two HTTP requests; the second is made
\* only after the first was answered 400 and is sent with parse_mode
\* cleared; it returns true exactly when one request was answered 200; with
\* the token or the chat id unset it makes no request and returns false.
GotStatus(request, code) ==
    "status_code" \in DOMAIN request.reply /\ request.reply.status_code = code

C30_SendTelegram ==
    \A i \in DOMAIN telegram_calls :
        LET call == telegram_calls[i]
        IN  /\ Len(call.requests) <= 2
            /\ Len(call.requests) = 2 =>
                  /\ GotStatus(call.requests[1], 400)
                  /\ call.requests[2].parse_mode = ""
            /\ \A k \in DOMAIN call.requests :
                  call.requests[k].text = call.text
            /\ Len(call.requests) >= 1 => call.requests[1].parse_mode = call.parse_mode
            /\ call.returned <=>
                  Cardinality({k \in DOMAIN call.requests : GotStatus(call.requests[k], 200)}) = 1
            /\ (telegram_config.TOKEN = "" \/ telegram_config.CHAT_ID = "") =>
                  call.requests = << >> /\ ~call.returned

\* a call whose first request was answered 400 and whose second, sent
\* plain, was answered 200, and a call that gave up after another answer
C30_Witness ==
    /\ Len(telegram_calls) = 2
    /\ Len(telegram_calls[1].requests) = 2
    /\ telegram_calls[1].parse_mode = "Markdown"
    /\ telegram_calls[1].returned
    /\ Len(telegram_calls[2].requests) = 1
    /\ GotStatus(telegram_calls[2].requests[1], 500)
    /\ ~telegram_calls[2].returned

\* the summarizer failed: no key, an exception of the request, a status
\* other than 200, a body that is no JSON or has no choice, a content that
\* is not the JSON text of a record (alone or between fences)
SummarizerFailed(key, reply) ==
    \/ key = ""
    \/ "raised" \in DOMAIN reply
    \/ reply.status_code # 200
    \/ "raised" \in DOMAIN reply.json
    \/ "choices" \notin DOMAIN reply.json
    \/ reply.json.choices = << >>
    \/ LET content == reply.json.choices[1].message.content
       IN  \/ "not_json" \in DOMAIN content.text
           \/ "dict" \notin DOMAIN content.text.json
           \/ content.open = "fence"
           \/ content.open = "" /\ content.close # ""

\* C22: summarize_event never raises; when the summarizer fails (no API
\* key, status other than 200, exception of the request, unparsable or
\* malformed JSON body) it returns the fallback record, with ai_generated
\* false, and the alert built with it has the type and the confidence of
\* the rule-based classifier, in the message and in the stored row.
C22_SummarizerFallback ==
    \A i \in DOMAIN alert_calls :
        LET call == alert_calls[i]
        IN  /\ call.ai_summary # None => "raised" \notin DOMAIN call.ai_summary
            /\ (/\ call.args.news_data # << >>
                /\ SummarizerFailed(summary_config.OPENAI_API_KEY, call.args.reply)) =>
                   /\ call.ai_summary # None
                   /\ call.ai_summary.ai_generated = FALSE
                   /\ call.ai_summary.confidence = [number |-> 50]
                   /\ call.ai_summary.source_count = Len(call.args.news_data)
                   /\ call.ai_summary.classification =
                        (IF call.args.price_data = None THEN "Noise" ELSE "Catalyst")
                   /\ call.message # None =>
                        /\ call.message.cls_type = call.rule.type
                        /\ call.message.confidence = call.rule.confidence
                   /\ call.stored # None =>
                        /\ call.stored.classification = call.rule.type
                        /\ call.stored.confidence = call.rule.confidence

\* the service answered 200 with a list for content; the fallback says
\* Catalyst for the price, the alert is stored as the rule's Fracture
C22_Witness ==
    \E i \in DOMAIN alert_calls :
        LET call == alert_calls[i]
        IN  /\ summary_config.OPENAI_API_KEY # ""
            /\ "status_code" \in DOMAIN call.args.reply
            /\ call.args.reply.status_code = 200
            /\ SummarizerFailed(summary_config.OPENAI_API_KEY, call.args.reply)
            /\ call.ai_summary # None
            /\ call.ai_summary.classification = "Catalyst"
            /\ call.stored # None
            /\ call.stored.classification = "Fracture"
            /\ call.message.cls_type = "Fracture"

\* C23: in every alert send_alert records, the stored classification and
\* the stored confidence come from the same verdict: both from the
\* summarizer's or both from the rule-based classifier's.
C23_OneVerdict ==
    \A i \in DOMAIN alert_calls :
        LET call == alert_calls[i]
        IN  call.stored # None =>
              \/ /\ call.stored.classification = call.rule.type
                 /\ call.stored.confidence = call.rule.confidence
              \/ /\ call.ai_summary # None
                 /\ "classification" \in DOMAIN call.ai_summary
                 /\ call.stored.classification = call.ai_summary.classification
                 /\ "number" \in DOMAIN call.ai_summary.confidence
                 /\ call.stored.confidence = call.ai_summary.confidence.number

\* C24: the classification send_alert uses for the cooldown gate, for the
\* message and for the stored alert is the summarizer's when there is a
\* summary with ai_generated true and the rule-based type otherwise, and the
\* three uses agree.
C24_OneClassification ==
    \A i \in DOMAIN alert_calls :
        LET call == alert_calls[i]
            from_ai == call.ai_summary # None /\ call.ai_summary.ai_generated
        IN  /\ (from_ai /\ "classification" \in DOMAIN call.ai_summary) =>
                  call.cls_type = call.ai_summary.classification
            /\ ~from_ai => call.cls_type = call.rule.type
            /\ call.message # None => call.message.cls_type = call.cls_type
            /\ call.stored # None => call.stored.classification = call.cls_type

\* the ticker has a recorded alert that is less than ALERT_COOLDOWN_MINUTES
\* old at the time at
RecentlyAlerted(ticker, at) ==
    \E k \in DOMAIN alerts :
        /\ alerts[k].ticker = ticker
        /\ alerts[k].timestamp <= at
        /\ at - alerts[k].timestamp < 30 * 60

\* C28: a call of send_alert with force false for a ticker that has a
\* recorded alert less than 30 minutes old returns false, sends no message
\* and records no alert; hence of two alerts of one ticker recorded less
\* than 30 minutes apart the later one was forced.
C28_Cooldown ==
    /\ \A i \in DOMAIN alert_calls :
          LET call == alert_calls[i]
          IN  (~call.args.force /\ RecentlyAlerted(call.args.ticker, call.at)) =>
                 /\ call.returned = [value |-> FALSE]
                 /\ call.message = None
                 /\ call.stored = None
    /\ Len(telegram_calls) = Cardinality({i \in DOMAIN alert_calls : alert_calls[i].message # None})
    /\ Len(alerts) <= NOISE_ALERTS_MAX_PER_DAY
                       + Cardinality({i \in DOMAIN alert_calls : alert_calls[i].stored # None})
    /\ \A j \in DOMAIN alert_calls :
          LET later == alert_calls[j]
          IN  (later.stored # None /\ ~later.args.force) =>
                 \A k \in DOMAIN alerts :
                    (/\ alerts[k].ticker = later.stored.ticker
                     /\ alerts[k].alert_id # later.stored.alert_id
                     /\ alerts[k].timestamp <= later.stored.timestamp) =>
                        later.stored.timestamp - alerts[k].timestamp >= 30 * 60

\* an alert was recorded, a call without force 29 minutes 59 seconds later
\* was refused, and a forced call after it was recorded
C28_Witness ==
    /\ Len(alert_calls) = 3
    /\ alert_calls[1].stored # None
    /\ ~alert_calls[2].args.force
    /\ alert_calls[2].args.ticker = alert_calls[1].args.ticker
    /\ alert_calls[2].args.wait = 1799
    /\ alert_calls[2].returned = [value |-> FALSE]
    /\ alert_calls[3].args.force
    /\ alert_calls[3].args.ticker = alert_calls[1].args.ticker
    /\ alert_calls[3].stored # None
    /\ Len(alerts) = 2

\* the trigger types of the calls of send_alert of a run
AlertsOf(run) == {run.send_alert[k] : k \in DOMAIN run.send_alert}

\* check_price_trigger was called in the run and the trigger fired
TriggerFired(run) ==
    /\ run.price_trigger # None
    /\ run.price_trigger.returned # None
    /\ run.price_trigger.returned.triggered

\* C29: in a run of scan_single send_alert is called at most once, and
\* when the price trigger fires in a run that sent no alert on the PSI path
\* (also with psi_total in [5, 7), where analyze ran and no PSI alert was
\* sent), a price_surge alert is asked for.
C29_PriceAlert ==
    \A i \in DOMAIN scan_runs :
        LET run == scan_runs[i]
        IN  /\ Len(run.send_alert) <= 1
            /\ (/\ "raised" \notin DOMAIN run.returned
                /\ TriggerFired(run)
                /\ "psi_critical" \notin AlertsOf(run)) =>
                   "price_surge" \in AlertsOf(run)

\* the tickers of the entries of a list
TickersOf(list) == {list[k].ticker : k \in DOMAIN list}

\* C21: in main an exception of scan_single never leaves the loop: every
\* ticker of the list is scanned, in order, whatever the tickers before it
\* did, and when main returns each listed ticker is in exactly one of
\* results and errors, each failure with an entry of its own.
C21_EachTickerListed ==
    /\ \A i \in DOMAIN scan_runs : i <= Len(tickers) /\ scan_runs[i].ticker = tickers[i]
    /\ main_at = "returned" =>
         /\ Len(scan_runs) = Len(tickers)
         /\ \A i \in DOMAIN tickers :
                (tickers[i] \in TickersOf(results)) # (tickers[i] \in TickersOf(errors))
         /\ Len(errors) = Cardinality({i \in DOMAIN scan_runs :
                                          "raised" \in DOMAIN scan_runs[i].returned})

\* settings.py:53: the tickers of WATCHMAP are those of WATCHLIST
InWatchmap(ticker) ==
    ticker \in {scan_config.WATCHLIST[k] : k \in DOMAIN scan_config.WATCHLIST}

\* C21 (amended): every ticker of the list is scanned, in order, whatever
\* the tickers before it did; when main returns each listed ticker of
\* WATCHMAP is in exactly one of results and errors, each failure with an
\* entry of its own, and a listed ticker that is not in WATCHMAP is in
\* neither.
C21_EachKnownTickerListed ==
    /\ \A i \in DOMAIN scan_runs : i <= Len(tickers) /\ scan_runs[i].ticker = tickers[i]
    /\ main_at = "returned" =>
         /\ Len(scan_runs) = Len(tickers)
         /\ \A i \in DOMAIN tickers :
                IF InWatchmap(tickers[i])
                THEN (tickers[i] \in TickersOf(results)) # (tickers[i] \in TickersOf(errors))
                ELSE tickers[i] \notin TickersOf(results) \cup TickersOf(errors)
         /\ Len(errors) = Cardinality({i \in DOMAIN scan_runs :
                                          "raised" \in DOMAIN scan_runs[i].returned})

\* main has returned from a list of two tickers: the scan of the first
\* raised and is in errors, the second was scanned all the same and is in
\* results
C21_Witness ==
    /\ main_at = "returned"
    /\ Len(tickers) = 2
    /\ "raised" \in DOMAIN scan_runs[1].returned
    /\ TickersOf(errors) = {tickers[1]}
    /\ TickersOf(results) = {tickers[2]}

====
